---- MODULE Spec2Model ----
(***************************************************************************)
(* Verification model of the image renderer of the thought-of-the-day      *)
(* generator: QuoteImageService.generateQuoteImage,                        *)
(* WordImageService.generateWordImage, ImageStorage.saveImage and the      *)
(* weekday theme dispatch.                                                 *)
(*                                                                         *)
(* Lengths are held in tenths of a pixel, so that 58 * 1.2 = 69.6 px and   *)
(* 58 * 0.8 = 46.4 px are the integers 696 and 464.  Gradient offsets and  *)
(* Math.random() draws are held in hundredths.                             *)
(***************************************************************************)
EXTENDS Integers, Sequences, FiniteSets, TLC

\* ---------------------------------------------------------------- bounds
\* number of render calls made by one run of the process
MaxCalls == 2
\* largest number of lines wrapText returns for the quote
MaxLines == 10
\* largest number of lines wrapText returns for a definition or an example
MaxWordLines == 2
\* number of clock ticks (milliseconds) that pass during one run
MaxTicks == 1
\* number of theme resolutions recorded by SpecTheme
MaxResolutions == 2
MaxShrinks == 2
MaxDay == 61
MaxUses == 3
MaxReturns == 3
MaxProviderCalls == 2
MaxBlockLines == 4
MaxLimit == 3

\* ------------------------------------------------------------ design ids
\* A designId is a string; it is held as its sequence of characters so that
\* String.prototype.includes is a real substring test.
Monday == <<"m", "o", "n", "d", "a", "y">>
Tuesday == <<"t", "u", "e", "s", "d", "a", "y">>
Wednesday == <<"w", "e", "d", "n", "e", "s", "d", "a", "y">>
Thursday == <<"t", "h", "u", "r", "s", "d", "a", "y">>
Friday == <<"f", "r", "i", "d", "a", "y">>
Saturday == <<"s", "a", "t", "u", "r", "d", "a", "y">>
Sunday == <<"s", "u", "n", "d", "a", "y">>

\* the weekday names in the order every if-chain of the renderer tests them
days == <<Monday, Tuesday, Wednesday, Thursday, Friday, Saturday, Sunday>>

\* designId of the fixed config of a day: 'fixed-<day>-design'
FixedDesignId(day) == <<"f", "i", "x", "e", "d", "-">> \o day \o <<"-", "d", "e", "s", "i", "g", "n">>

\* designId of a random config: `random-design-${Math.floor(Math.random() * 100)}`
DigitChar(k) == <<"0", "1", "2", "3", "4", "5", "6", "7", "8", "9">>[k + 1]

RandomDesignId(n) ==
  <<"r", "a", "n", "d", "o", "m", "-", "d", "e", "s", "i", "g", "n", "-">> \o
  (IF n < 10 THEN <<DigitChar(n)>> ELSE <<DigitChar(n \div 10), DigitChar(n % 10)>>)

\* s.includes(sub)
includes(s, sub) ==
  \E i \in 0..(Len(s) - Len(sub)) : SubSeq(s, i + 1, i + Len(sub)) = sub

\* the designIds given to the renderer: the seven fixed configs of
\* DesignConfigsProvider, two random configs, and one id naming two days
DesignIds ==
  {FixedDesignId(days[i]) : i \in 1..Len(days)} \cup
  {RandomDesignId(7), RandomDesignId(42), Sunday \o <<"-">> \o Monday}

\* the designIds of the render calls: a day whose card has no border, a day
\* whose card has one, and a random config
RenderDesignIds ==
  {FixedDesignId(Monday), FixedDesignId(Tuesday), RandomDesignId(7)}

\* values Math.random() returns, in hundredths
RandomDraws == {0, 99}

\* ---------------------------------------------------------------- colours
\* '#rrggbb'
Rgb(r, g, b) == <<"rgb", r, g, b>>

\* `hsl(${h}, ${s}%, ${l}%)`
Hsl(h, s, l) == <<"hsl", h, s, l>>

\* one gradient.addColorStop(offset, color), the offset in hundredths
Stop(offset, color) == [offset |-> offset, color |-> color]

\* ------------------------------------------------- WordImageService themes
getDayIndexRandomSunday(designId, r) ==
  IF \E i \in 1..(Len(days) - 1) : includes(designId, days[i])
  THEN [value |-> (CHOOSE i \in 1..Len(days) :
                     /\ includes(designId, days[i])
                     /\ \A j \in 1..(i - 1) : ~includes(designId, days[j])) - 1,
        drew |-> FALSE]
  ELSE [value |-> (r * 7) \div 100, drew |-> TRUE]

\* the first weekday contained in designId, else Math.floor(Math.random() * 7)
getDayIndex(designId, r) ==
  IF \E i \in 1..Len(days) : includes(designId, days[i])
  THEN [value |-> (CHOOSE i \in 1..Len(days) :
                     /\ includes(designId, days[i])
                     /\ \A j \in 1..(i - 1) : ~includes(designId, days[j])) - 1,
        drew |-> FALSE]
  ELSE [value |-> (r * 7) \div 100, drew |-> TRUE]

\* fonts.title / fonts.body
fonts == <<"Lato", "Nunito", "Lora">>

\* this.fonts.title[dayIndex % this.fonts.title.length]
fontOf(dayIndex) == fonts[(dayIndex % Len(fonts)) + 1]

\* the hue of the fallback gradient: Math.floor(Math.random() * 360)
randomHue(r) == (r * 360) \div 100

\* the colour stops createDayBackground adds to its gradient
createDayBackground(designId, r) ==
  IF includes(designId, Monday) THEN
    [stops |-> <<Stop(0, Rgb(65, 88, 208)), Stop(46, Rgb(200, 80, 192)),
                 Stop(100, Rgb(255, 204, 112))>>, drew |-> FALSE]
  ELSE IF includes(designId, Tuesday) THEN
    [stops |-> <<Stop(0, Rgb(11, 171, 100)), Stop(100, Rgb(59, 178, 249))>>,
     drew |-> FALSE]
  ELSE IF includes(designId, Wednesday) THEN
    [stops |-> <<Stop(0, Rgb(250, 139, 255)), Stop(50, Rgb(43, 210, 255)),
                 Stop(100, Rgb(43, 255, 136))>>, drew |-> FALSE]
  ELSE IF includes(designId, Thursday) THEN
    [stops |-> <<Stop(0, Rgb(142, 45, 226)), Stop(100, Rgb(255, 130, 53))>>,
     drew |-> FALSE]
  ELSE IF includes(designId, Friday) THEN
    [stops |-> <<Stop(0, Rgb(255, 60, 172)), Stop(50, Rgb(120, 75, 160)),
                 Stop(100, Rgb(43, 134, 197))>>, drew |-> FALSE]
  ELSE IF includes(designId, Saturday) THEN
    [stops |-> <<Stop(0, Rgb(255, 65, 108)), Stop(100, Rgb(255, 75, 43))>>,
     drew |-> FALSE]
  ELSE IF includes(designId, Sunday) THEN
    [stops |-> <<Stop(0, Rgb(62, 236, 172)), Stop(50, Rgb(85, 216, 193)),
                 Stop(100, Rgb(61, 135, 255))>>, drew |-> FALSE]
  ELSE
    [stops |-> <<Stop(0, Hsl(randomHue(r), 100, 85)),
                 Stop(50, Hsl((randomHue(r) + 60) % 360, 80, 75)),
                 Stop(100, Hsl((randomHue(r) + 120) % 360, 60, 70))>>,
     drew |-> TRUE]

\* the drawing routine addDecorativeElements calls
addDecorativeElements(designId) ==
  IF includes(designId, Monday) THEN "drawBubbles"
  ELSE IF includes(designId, Tuesday) THEN "drawLeaves"
  ELSE IF includes(designId, Wednesday) THEN "drawSunAndClouds"
  ELSE IF includes(designId, Thursday) THEN "drawStars"
  ELSE IF includes(designId, Friday) THEN "drawConfetti"
  ELSE IF includes(designId, Saturday) THEN "drawGeometricShapes"
  ELSE IF includes(designId, Sunday) THEN "drawBirdsAndTrees"
  ELSE "drawDots"

\* ------------------------------------------------ QuoteImageService themes
quoteDecorationSundayFirst(designId) ==
  IF includes(designId, Sunday) THEN "addSundayDecoration"
  ELSE IF includes(designId, Monday) THEN "addMondayDecoration"
  ELSE IF includes(designId, Tuesday) THEN "addTuesdayDecoration"
  ELSE IF includes(designId, Wednesday) THEN "addWednesdayDecoration"
  ELSE IF includes(designId, Thursday) THEN "addThursdayDecoration"
  ELSE IF includes(designId, Friday) THEN "addFridayDecoration"
  ELSE IF includes(designId, Saturday) THEN "addSaturdayDecoration"
  ELSE "addRandomDecoration"

\* the decoration routine generateQuoteImage calls after the attribution
quoteDecoration(designId) ==
  IF includes(designId, Monday) THEN "addMondayDecoration"
  ELSE IF includes(designId, Tuesday) THEN "addTuesdayDecoration"
  ELSE IF includes(designId, Wednesday) THEN "addWednesdayDecoration"
  ELSE IF includes(designId, Thursday) THEN "addThursdayDecoration"
  ELSE IF includes(designId, Friday) THEN "addFridayDecoration"
  ELSE IF includes(designId, Saturday) THEN "addSaturdayDecoration"
  ELSE IF includes(designId, Sunday) THEN "addSundayDecoration"
  ELSE "addRandomDecoration"

\* the constants of a card: drawStylizedCard's local variables before it draws
CardStyleOf(bg, border, bWidth, radius, shadow, blur, offX, offY) ==
  [backgroundColor |-> bg, borderColor |-> border,
   borderWidth |-> bWidth, borderRadius |-> radius,
   shadowColor |-> shadow, shadowBlur |-> blur,
   shadowOffsetX |-> offX, shadowOffsetY |-> offY]

\* borderColor = null
NoBorder == "null"

cardStyle(designId) ==
  IF includes(designId, Monday) THEN
    CardStyleOf("rgba(255, 255, 255, 0.25)", NoBorder, 0, 25,
                "rgba(0, 0, 40, 0.35)", 20, 5, 5)
  ELSE IF includes(designId, Tuesday) THEN
    CardStyleOf("rgba(255, 255, 255, 0.2)", "rgba(255, 255, 255, 0.4)", 3, 15,
                "rgba(50, 0, 0, 0.3)", 18, 5, 5)
  ELSE IF includes(designId, Wednesday) THEN
    CardStyleOf("rgba(255, 255, 255, 0.15)", NoBorder, 0, 30,
                "rgba(0, 30, 0, 0.25)", 25, 5, 5)
  ELSE IF includes(designId, Thursday) THEN
    CardStyleOf("rgba(255, 255, 255, 0.2)", "rgba(255, 255, 255, 0.5)", 2, 10,
                "rgba(50, 0, 50, 0.35)", 15, 8, 8)
  ELSE IF includes(designId, Friday) THEN
    CardStyleOf("rgba(255, 255, 255, 0.25)", NoBorder, 0, 35,
                "rgba(50, 40, 0, 0.3)", 22, 5, 5)
  ELSE IF includes(designId, Saturday) THEN
    CardStyleOf("rgba(255, 255, 255, 0.2)", "rgba(255, 255, 255, 0.3)", 4, 28,
                "rgba(0, 40, 40, 0.25)", 15, 5, 5)
  ELSE IF includes(designId, Sunday) THEN
    CardStyleOf("rgba(255, 255, 255, 0.15)", "rgba(255, 255, 255, 0.2)", 3, 20,
                "rgba(30, 0, 60, 0.3)", 20, 5, 5)
  ELSE
    CardStyleOf("rgba(255, 255, 255, 0.2)", NoBorder, 0, 20,
                "rgba(0, 0, 0, 0.3)", 15, 5, 5)

\* --------------------------------------------------------- IMAGE_CONFIG
WIDTH == 1080
HEIGHT == 1080
MARGINS_HORIZONTAL == 100
MARGINS_VERTICAL == 100

\* n pixels, in tenths of a pixel
Px(n) == n * 10

\* ------------------------------------- generateQuoteImage: the quote layout
titleFontSize == 60
quoteFontSize == 58
authorHeight == 40
titleToQuoteGap == 60
quoteToAuthorGap == 50
cardPaddingVertical == 60
cardPaddingHorizontal == 50

\* canvas.width - IMAGE_CONFIG.MARGINS.HORIZONTAL * 2 - 180
maxTextWidth == Px(WIDTH - MARGINS_HORIZONTAL * 2 - 180)

titleHeight == Px(titleFontSize)

\* quoteFontSize * 1.2
quoteLineHeight == quoteFontSize * 12

\* wrappedQuote.length * quoteLineHeight
quoteTextHeight(n) == n * quoteLineHeight

cardWidth == maxTextWidth + Px(cardPaddingHorizontal) * 2

cardHeightWithoutAuthor(n) == quoteTextHeight(n) + Px(cardPaddingVertical) * 2

cardHeight(n) ==
  quoteTextHeight(n) + Px(authorHeight) + Px(quoteToAuthorGap) +
  Px(cardPaddingVertical) * 2

cardYCentred(n) == (Px(HEIGHT) - cardHeight(n)) \div 2

\* (canvas.height - cardHeight) / 2 + 20
cardY(n) == (Px(HEIGHT) - cardHeight(n)) \div 2 + Px(20)

titleY(n) == cardY(n) - Px(titleToQuoteGap)

cardX == (Px(WIDTH) - cardWidth) \div 2

\* cardY + cardPadding.vertical + quoteFontSize * 0.8
quoteStartY(n) == cardY(n) + Px(cardPaddingVertical) + quoteFontSize * 8

\* the baseline of line `index` (from 0) of the wrapped quote
quoteLineY(n, index) == quoteStartY(n) + index * quoteLineHeight

authorY(n) == quoteStartY(n) + n * quoteLineHeight + Px(quoteToAuthorGap)

\* the geometry generateQuoteImage computes for a quote wrapped into n lines
QuoteLayout(n) ==
  [lines |-> n,
   cardX |-> cardX, cardY |-> cardY(n),
   cardWidth |-> cardWidth, cardHeight |-> cardHeight(n),
   titleY |-> titleY(n),
   quoteStartY |-> quoteStartY(n),
   lastLineY |-> quoteLineY(n, n - 1),
   authorY |-> authorY(n)]

\* the layout of a call that has not wrapped its quote
NoLayout ==
  [lines |-> 0, cardX |-> 0, cardY |-> 0, cardWidth |-> 0, cardHeight |-> 0,
   titleY |-> 0, quoteStartY |-> 0, lastLineY |-> 0, authorY |-> 0]

\* --------------------------------- applyGradientBackground: the colour stops
\* design.background.color is a string; it is held as what JSON.parse makes of
\* it: kind "empty" is '', "malformed" is text such as 'not-json', "object" is
\* JSON that is no array, "array" is a JSON array of the colours in elems.
ColorValue(kind, elems) == [kind |-> kind, elems |-> elems]

ColorValues ==
  {ColorValue("empty", <<>>), ColorValue("malformed", <<>>),
   ColorValue("object", <<>>), ColorValue("array", <<>>),
   ColorValue("array", <<Rgb(51, 102, 153)>>),
   ColorValue("array", <<Rgb(255, 0, 0), Rgb(0, 0, 255)>>),
   ColorValue("array", <<Rgb(255, 0, 0), Rgb(0, 255, 0), Rgb(0, 0, 255)>>)}

\* JSON.parse(color): it throws on text that is not JSON
JSONparse(color) ==
  [threw |-> color.kind = "malformed",
   isArray |-> color.kind = "array",
   value |-> color.elems]

Clamp(v) == IF v < 0 THEN 0 ELSE IF v > 255 THEN 255 ELSE v

adjustBrightness(hex, percent) ==
  Rgb(Clamp(hex[2] + percent), Clamp(hex[3] + percent), Clamp(hex[4] + percent))

\* let colors = ['#ffffff', '#f0f0f0']
defaultColors == <<Rgb(255, 255, 255), Rgb(240, 240, 240)>>

\* the stops of the gradient made from the list colors
gradientStops(colors) ==
  IF Len(colors) = 1
  THEN <<Stop(0, colors[1]), Stop(100, adjustBrightness(colors[1], -10))>>
  ELSE [i \in 1..Len(colors) |->
          Stop(((i - 1) * 100) \div (Len(colors) - 1), colors[i])]

applyGradientBackgroundNoCatch(color) ==
  IF color.kind # "empty" /\ JSONparse(color).threw
  THEN [threw |-> TRUE, stops |-> <<>>]
  ELSE [threw |-> FALSE,
        stops |-> gradientStops(
          IF /\ color.kind # "empty"
             /\ JSONparse(color).isArray
             /\ Len(JSONparse(color).value) > 0
          THEN JSONparse(color).value
          ELSE defaultColors)]

\* the outcome of applyGradientBackground: the stops it adds, and whether an
\* exception leaves it
applyGradientBackground(color) ==
  [threw |-> FALSE,
   stops |-> gradientStops(
     IF /\ color.kind # "empty"
        /\ ~JSONparse(color).threw
        /\ JSONparse(color).isArray
        /\ Len(JSONparse(color).value) > 0
     THEN JSONparse(color).value
     ELSE defaultColors)]

\* ------------------------------------------------------------ ImageStorage
\* moment().format('SSS') counts the milliseconds of a second
MsPerSecond == 1000

\* moment().format('YYYY-MM-DD_HH-mm-ss-SSS') of the clock reading now (ms)
formatMillis(now) == <<now \div MsPerSecond, now % MsPerSecond>>

\* moment().format('YYYY-MM-DD-HH-mm-ss') of the clock reading now (ms)
formatSeconds(now) == <<now \div MsPerSecond>>

\* a reference 'generated-images/<dir>/<prefix><stamp>.png'
Url(dir, prefix, stamp) == [dir |-> dir, prefix |-> prefix, stamp |-> stamp]

\* the value a call has before it returns
NoResult == Url("", "", <<>>)

\* 'generated-images/thoughts/placeholder.png', 'generated-images/words/placeholder.png'
placeholder(kind) ==
  Url(IF kind = "word" THEN "words" ELSE "thoughts", "placeholder", <<>>)

\* urlPath of the first ImageStorage.saveImage, called without filename
saveImageAsync(type, now) ==
  Url(IF type = "word" THEN "words" ELSE "thoughts", "", formatMillis(now))

\* the path the second ImageStorage.saveImage returns
saveImageSync(category, now) ==
  Url(IF category = "word" THEN "words" ELSE "thoughts",
      IF category = "word" THEN "word-of-the-day-" ELSE "thought-of-the-day-",
      formatSeconds(now))

\* the file has two definitions of ImageStorage; impl says which one is linked
saveImage(impl, type, now) ==
  IF impl = 1 THEN saveImageAsync(type, now) ELSE saveImageSync(type, now)

\* what can happen inside saveImage
SaveOutcomes(impl) ==
  {"ok", "toBufferThrows", "writeThrows"} \cup
  (IF impl = 2 THEN {"mkdirThrows"} ELSE {})

\* -------------------------------------------------------- the paint log
\* one painting call on the canvas, with ctx.shadowColor at that moment
Paint(op, shadow) == [op |-> op, shadow |-> shadow]

Transparent == "transparent"

TextOps ==
  {"title", "body", "author", "word", "partOfSpeech", "heading",
   "definition", "example"}
CardOps == {"card_fill", "card_stroke", "box_fill"}
DecorationOps == {"decoration"}
BackgroundOps == {"background", "texture"}

\* n copies of the paint p
Repeat(p, n) == [i \in 1..n |-> p]

drawStylizedCardNoRestore(shadow, designId) ==
  [paints |->
     <<Paint("card_fill", cardStyle(designId).shadowColor)>> \o
     (IF cardStyle(designId).borderColor # NoBorder /\ cardStyle(designId).borderWidth # 0
      THEN <<Paint("card_stroke", Transparent)>> ELSE <<>>),
   shadow |->
     IF cardStyle(designId).borderColor # NoBorder /\ cardStyle(designId).borderWidth # 0
     THEN Transparent ELSE cardStyle(designId).shadowColor]

\* drawStylizedCard on a context whose shadowColor is shadow: what it paints
\* and the shadowColor it leaves (ctx.save() ... ctx.restore())
drawStylizedCard(shadow, designId) ==
  [paints |->
     <<Paint("card_fill", cardStyle(designId).shadowColor)>> \o
     (IF cardStyle(designId).borderColor # NoBorder /\ cardStyle(designId).borderWidth # 0
      THEN <<Paint("card_stroke", Transparent)>> ELSE <<>>),
   shadow |-> shadow]

\* ---------------------------------------------------------- the options
NoColor == ColorValue("empty", <<>>)

Options(kind, hasDesign, designId, bgType, color, partOfSpeech, example) ==
  [kind |-> kind, hasDesign |-> hasDesign, designId |-> designId,
   bgType |-> bgType, color |-> color,
   partOfSpeech |-> partOfSpeech, example |-> example]

\* ImageGenerationOptions: the design may be null (findByDay found none)
QuoteOptions ==
  {Options("quote", TRUE, d, "solid", NoColor, FALSE, FALSE) : d \in RenderDesignIds} \cup
  {Options("quote", TRUE, d, "gradient", c, FALSE, FALSE) :
     d \in RenderDesignIds, c \in ColorValues} \cup
  {Options("quote", FALSE, <<>>, "solid", NoColor, FALSE, FALSE)}

\* WordImageGenerationOptions: partOfSpeech and example may be null
WordOptions ==
  {Options("word", TRUE, d, "solid", NoColor, p, e) :
     d \in RenderDesignIds, p \in BOOLEAN, e \in BOOLEAN} \cup
  {Options("word", FALSE, <<>>, "solid", NoColor, FALSE, FALSE)}

NoOptions == Options("none", FALSE, <<>>, "solid", NoColor, FALSE, FALSE)

\* the theme-dependent selections of one render
Theme(kind, designId, fontIndex, stops, decoration, card, drew) ==
  [kind |-> kind, designId |-> designId, fontIndex |-> fontIndex,
   stops |-> stops, decoration |-> decoration, card |-> card, drew |-> drew]

NoCard == CardStyleOf("", "", 0, 0, "", 0, 0, 0)

NoTheme == Theme("none", <<>>, 0, <<>>, "", NoCard, {})

\* ------------------------------------------------------- the typography
\* a field of design.typography that is not set
Undefined == "undefined"

OrDefaultKeeps(v, d) == v

\* v || d: the right operand when the left one is undefined or empty
OrDefault(v, d) == IF v \in {Undefined, ""} THEN d ELSE v

TextStyle(fontFamily, color) == [fontFamily |-> fontFamily, color |-> color]

\* design.typography: the title, quote and author groups
Typography(title, quote, author) == [title |-> title, quote |-> quote, author |-> author]

CompleteTypography ==
  Typography(TextStyle("Playfair Display", "#2C3E50"),
             TextStyle("Palatino Linotype", "#4A4A4A"),
             TextStyle("Trebuchet MS", "#3D3D3D"))

\* every field set or not set, and the typography of empty strings
Typographies ==
  {Typography(TextStyle(f1, c1), TextStyle(f2, c2), TextStyle(f3, c3)) :
     f1 \in {CompleteTypography.title.fontFamily, Undefined},
     c1 \in {CompleteTypography.title.color, Undefined},
     f2 \in {CompleteTypography.quote.fontFamily, Undefined},
     c2 \in {CompleteTypography.quote.color, Undefined},
     f3 \in {CompleteTypography.author.fontFamily, Undefined},
     c3 \in {CompleteTypography.author.color, Undefined}} \cup
  {Typography(TextStyle("", ""), TextStyle("", ""), TextStyle("", ""))}

NoTypography ==
  Typography(TextStyle("", ""), TextStyle("", ""), TextStyle("", ""))

\* ctx.font and ctx.fillStyle when the title is drawn
titleInk(t) ==
  TextStyle(OrDefault(t.title.fontFamily, "Arial"), OrDefault(t.title.color, "#000000"))

\* ctx.font and ctx.fillStyle when the lines of the quote are drawn
quoteInk(t) ==
  TextStyle(OrDefault(t.quote.fontFamily, "Arial"), OrDefault(t.quote.color, "#000000"))

\* ctx.font and ctx.fillStyle when the author is drawn
authorInk(t) ==
  TextStyle(OrDefault(t.author.fontFamily, "Arial"), OrDefault(t.author.color, "#555555"))

NoInk == TextStyle("none", "none")

NoInks == [title |-> NoInk, body |-> NoInk, author |-> NoInk]

\* the styles after the paints, each text of the quote image drawn with the
\* font family and fill style set just before its fillText
inked(i, t, paints) ==
  [title |-> IF \E k \in DOMAIN paints : paints[k].op = "title" THEN titleInk(t) ELSE i.title,
   body |-> IF \E k \in DOMAIN paints : paints[k].op = "body" THEN quoteInk(t) ELSE i.body,
   author |-> IF \E k \in DOMAIN paints : paints[k].op = "author" THEN authorInk(t) ELSE i.author]

\* ------------------------------------------------- the font registration
\* the font table: the families registered, the number of registerFont calls
\* made, and whether onModuleInit has returned
FontRegistry(initialised, families, calls) ==
  [initialised |-> initialised, families |-> families, calls |-> calls]

\* the families onModuleInit registers, in order
customFonts == <<"Lato", "Nunito", "Lora">>

onModuleInitNoCatch(registered) ==
  FontRegistry(registered = Len(customFonts), SubSeq(customFonts, 1, registered),
               IF registered < Len(customFonts) THEN registered + 1 ELSE registered)

\* onModuleInit when the first `registered` calls of registerFont succeed and
\* the next one, if any, throws: the catch logs the error
onModuleInit(registered) ==
  FontRegistry(TRUE, SubSeq(customFonts, 1, registered),
               IF registered < Len(customFonts) THEN registered + 1 ELSE registered)

\* ------------------------------------------------------ the text wrapper
\* TextUtilsService.wrapText: a text is a sequence of characters; widths are
\* in pixels, heights in tenths of a pixel
ShrinkStep == 2

\* the advance of a character at font size 1
charWidth(c) == IF c = "m" THEN 2 ELSE 1

RECURSIVE advance(_)
advance(s) == IF s = <<>> THEN 0 ELSE charWidth(Head(s)) + advance(Tail(s))

\* measure(text, fontDescriptor): the width of the text at the font size
measure(s, fontSize) == fontSize * advance(s)

lineHeight(fontSize) == fontSize * 12

RECURSIVE splitFrom(_, _, _)
splitFrom(s, token, tokens) ==
  IF s = <<>> THEN (IF token = <<>> THEN tokens ELSE Append(tokens, token))
  ELSE IF Head(s) = " "
       THEN splitFrom(Tail(s), <<>>, IF token = <<>> THEN tokens ELSE Append(tokens, token))
       ELSE splitFrom(Tail(s), Append(token, Head(s)), tokens)

\* step 1: the text split on whitespace into tokens
split(s) == splitFrom(s, <<>>, <<>>)

\* the prefixes of the token that leave a suffix and fit with their hyphen
fittingPrefixes(token, maxWidth, fontSize) ==
  {k \in 1..(Len(token) - 1) :
     measure(Append(SubSeq(token, 1, k), "-"), fontSize) <= maxWidth}

Longest(ks) == CHOOSE k \in ks : \A j \in ks : j <= k

hyphenateNoHyphen(token, k) ==
  [fragment |-> SubSeq(token, 1, k), rest |-> SubSeq(token, k + 1, Len(token))]

\* step 3: the fragment emitted as a line and the suffix wrapped next
hyphenate(token, k) ==
  [fragment |-> Append(SubSeq(token, 1, k), "-"),
   rest |-> SubSeq(token, k + 1, Len(token))]

fitsOnLineAnyway(line, token, maxWidth, fontSize) == TRUE

\* step 2: the token can be added to the line
fitsOnLine(line, token, maxWidth, fontSize) ==
  measure(line \o <<" ">> \o token, fontSize) <= maxWidth

atFloorNever(fontSize, minFontSize) == fontSize = 0

\* step 4: the floor of the font size is reached
atFloor(fontSize, minFontSize) == fontSize = minFontSize

\* the state of one call of the wrapper
WrapCall(text, maxWidth, startFontSize, minFontSize, maxBlockHeight) ==
  [pc |-> "fill", text |-> text, maxWidth |-> maxWidth,
   startFontSize |-> startFontSize, minFontSize |-> minFontSize,
   maxBlockHeight |-> maxBlockHeight, fontSize |-> startFontSize,
   pending |-> split(text), line |-> <<>>, lines |-> <<>>, passes |-> 1]

NoWrap ==
  [pc |-> "idle", text |-> <<>>, maxWidth |-> 0, startFontSize |-> 0,
   minFontSize |-> 0, maxBlockHeight |-> 0, fontSize |-> 0,
   pending |-> <<>>, line |-> <<>>, lines |-> <<>>, passes |-> 0]

\* the texts wrapped: empty, one token, tokens of several widths, a token
\* wider than any line, repeated and trailing whitespace
Texts ==
  {<<>>,
   <<"m", "i">>,
   <<"i", "m", " ", "m", "i">>,
   <<"m", "i", "m", "i", "m", "i", "m">>,
   <<"i", " ", "m", "m", "m", "m", " ", "i", "i">>,
   <<"i", " ", " ", "m", " ">>}

MaxWidths == {0, 4, 8, 24}

MinFontSizes == {1, 2}

MaxBlockHeights == {0, 48, 1000}

\* ------------------------------------------------------ the word service
\* a value of a JSON response: a string or a number with its text, or null
Str(text) == [type |-> "string", text |-> text]
Num(text) == [type |-> "number", text |-> text]
Null == [type |-> "null", text |-> <<>>]

\* the value is truthy: not null, not the empty string, not 0
truthy(v) ==
  \/ v.type = "string" /\ v.text # <<>>
  \/ v.type = "number" /\ v.text # <<"0">>

toUpperCase(c) ==
  CASE c = "a" -> "A" [] c = "i" -> "I" [] c = "j" -> "J" [] c = "m" -> "M"
    [] c = "p" -> "P" [] c = "r" -> "R" [] c = "s" -> "S" [] c = "t" -> "T"
    [] OTHER -> c

RECURSIVE trimStart(_)
trimStart(t) == IF t # <<>> /\ Head(t) = " " THEN trimStart(Tail(t)) ELSE t

RECURSIVE trimEnd(_)
trimEnd(t) ==
  IF t # <<>> /\ t[Len(t)] = " " THEN trimEnd(SubSeq(t, 1, Len(t) - 1)) ELSE t

trim(t) == trimEnd(trimStart(t))

\* capitalizeFirstLetter: a value that is falsy or not a string is returned as
\* it is ('' when falsy); a string is trimmed and its first letter raised
capitalizeFirstLetter(v) ==
  IF ~truthy(v) \/ v.type # "string"
  THEN (IF truthy(v) THEN v ELSE Str(<<>>))
  ELSE IF trim(v.text) = <<>> THEN Str(<<>>)
       ELSE Str(<<toUpperCase(Head(trim(v.text)))>> \o Tail(trim(v.text)))

\* `Definition of ${word}`
DefinitionOf(word) ==
  Str(<<"D", "e", "f", "i", "n", "i", "t", "i", "o", "n", " ", "o", "f", " ">> \o word.text)

\* FALLBACK_WORDS: the word and the first word of the definition of each entry
FALLBACK_WORDS ==
  <<[word |-> Str(<<"s", "e", "r", "e", "n", "d", "i", "p", "i", "t", "y">>),
     definition |-> Str(<<"T", "h", "e">>)],
    [word |-> Str(<<"r", "e", "s", "i", "l", "i", "e", "n", "c", "e">>),
     definition |-> Str(<<"T", "h", "e">>)],
    [word |-> Str(<<"i", "n", "n", "o", "v", "a", "t", "i", "o", "n">>),
     definition |-> Str(<<"T", "h", "e">>)],
    [word |-> Str(<<"p", "e", "r", "s", "e", "v", "e", "r", "a", "n", "c", "e">>),
     definition |-> Str(<<"P", "e", "r", "s", "i", "s", "t", "e", "n", "c", "e">>)],
    [word |-> Str(<<"m", "i", "n", "d", "f", "u", "l", "n", "e", "s", "s">>),
     definition |-> Str(<<"T", "h", "e">>)]>>

\* the WordData returned, where it came from
WordData(word, definition, source) ==
  [word |-> word, definition |-> definition, source |-> source]

NoWordData == WordData(Null, Null, "none")

\* getRandomFallbackWord when Math.random() selects randomIndex
getRandomFallbackWord(randomIndex) ==
  WordData(capitalizeFirstLetter(FALLBACK_WORDS[randomIndex].word),
           capitalizeFirstLetter(FALLBACK_WORDS[randomIndex].definition),
           "fallback")

\* the random-word APIs, in the order they are tried
apis == <<"Heroku", "Vercel", "RyanRK">>

\* the response to a request: an error, a timeout, a body that is not a
\* non-empty array, or an array with its first element
Response(kind, first) == [kind |-> kind, first |-> first]

ApiResponses ==
  {Response("error", Null), Response("timeout", Null), Response("invalid", Null),
   Response("array", Str(<<"j", "o", "y">>)), Response("array", Str(<<>>)),
   Response("array", Num(<<"4", "2">>))}

\* getRandomWordFromHeroku / Vercel / RyanRK: data[0], or an error thrown
getRandomWordFrom(response) ==
  IF response.kind = "array"
  THEN [threw |-> FALSE, word |-> response.first]
  ELSE [threw |-> TRUE, word |-> Null]

\* the dictionary lookups: an error or a timeout of a request, a body without
\* an entry, an entry that makes processWordData throw, or an entry with its
\* part of speech (fl) and its first short definition
Lookup(kind, fl, shortdef) == [kind |-> kind, fl |-> fl, shortdef |-> shortdef]

Lookups ==
  {Lookup("error", "", Null), Lookup("timeout", "", Null),
   Lookup("noEntry", "", Null), Lookup("malformed", "", Null)} \cup
  {Lookup("entry", fl, d) :
     fl \in {"noun", "verb"},
     d \in {Null, Str(<<>>), Str(<<" ", "a", " ", "j", "o", "y">>), Num(<<"7">>)}}

\* guessPartOfSpeech and the verb branch of generateDefaultExample call
\* methods of String on the word
stringMethodThrows(word) == word.type # "string"

\* processWordData: the definition, or an exception
processWordData(word, lookup) ==
  IF lookup.kind = "malformed" THEN [threw |-> TRUE, definition |-> Null]
  ELSE IF lookup.kind = "noEntry" THEN [threw |-> FALSE, definition |-> DefinitionOf(word)]
  ELSE IF lookup.fl = "verb" /\ stringMethodThrows(word)
       THEN [threw |-> TRUE, definition |-> Null]
       ELSE [threw |-> FALSE,
             definition |-> IF lookup.shortdef = Null THEN DefinitionOf(word)
                            ELSE capitalizeFirstLetter(lookup.shortdef)]

\* getWordDetails: the processed data, or the default content when a request
\* or the processing throws; the default content needs the word to be a string
getWordDetails(word, lookup) ==
  IF lookup.kind \notin {"error", "timeout"} /\ ~processWordData(word, lookup).threw
  THEN processWordData(word, lookup)
  ELSE IF stringMethodThrows(word)
       THEN [threw |-> TRUE, definition |-> Null]
       ELSE [threw |-> FALSE, definition |-> DefinitionOf(word)]

\* the state of one call of getWordOfTheDay: the API tried next, the responses
\* received, the word obtained, the counter at entry, the WordData returned
\* and whether an exception left the call
WordCall(pc, api, responses, word, countAtEntry, returned, threw) ==
  [pc |-> pc, api |-> api, responses |-> responses, word |-> word,
   countAtEntry |-> countAtEntry, returned |-> returned, threw |-> threw]

NoWordCall == WordCall("idle", 0, <<>>, Null, 0, NoWordData, FALSE)

breakerThreshold == 2

\* ----------------------------------------------------- the quote service
\* lastUsedAt of a quote that was never used (null)
NeverUsed == -1

cooldownDays == 30

takeFresh == 20

takeLeastRecent == 5

\* a row of the quote table
Quote(id, lastUsedAt, usageCount) ==
  [id |-> id, lastUsedAt |-> lastUsedAt, usageCount |-> usageCount]

NoQuote == Quote(0, NeverUsed, 0)

\* SEED_QUOTES: the first three seed quotes
SEED_QUOTES == {1, 2, 3}

isFreshAlways(row, thirtyDaysAgo) == TRUE

\* the where clause of the first query: lastUsedAt null or before the cutoff
isFresh(row, thirtyDaysAgo) ==
  \/ row.lastUsedAt = NeverUsed
  \/ row.lastUsedAt # NeverUsed /\ row.lastUsedAt < thirtyDaysAgo

\* orderBy lastUsedAt asc (nulls last), usageCount asc: p comes before q
before(p, q) ==
  \/ p.lastUsedAt # NeverUsed /\ q.lastUsedAt = NeverUsed
  \/ p.lastUsedAt # NeverUsed /\ q.lastUsedAt # NeverUsed /\ p.lastUsedAt < q.lastUsedAt
  \/ p.lastUsedAt = q.lastUsedAt /\ p.usageCount < q.usageCount

\* the rows that can be among the first `take` rows in that order
firstRows(rows, take) ==
  {q \in rows : Cardinality({p \in rows : before(p, q)}) < take}

\* the rows the call selects from: the quotes not used in the last 30 days,
\* or else the least recently used quotes
candidates(rows, thirtyDaysAgo) ==
  IF {r \in rows : isFresh(r, thirtyDaysAgo)} # {}
  THEN firstRows({r \in rows : isFresh(r, thirtyDaysAgo)}, takeFresh)
  ELSE firstRows(rows, takeLeastRecent)

markUsedKeepsDate(rows, id, now) ==
  {IF r.id = id THEN Quote(r.id, r.lastUsedAt, r.usageCount + 1) ELSE r : r \in rows}

\* prisma.quote.update: lastUsedAt: new Date(), usageCount: { increment: 1 }
markUsed(rows, id, now) ==
  {IF r.id = id THEN Quote(r.id, now, r.usageCount + 1) ELSE r : r \in rows}

\* the state of one call of getRandomQuote
QuoteCall(pc, thirtyDaysAgo, quote, returned) ==
  [pc |-> pc, thirtyDaysAgo |-> thirtyDaysAgo, quote |-> quote, returned |-> returned]

NoQuoteCall == QuoteCall("idle", 0, NoQuote, NoQuote)

QuoteCallers == {1, 2}

\* the calls that run one after the other
SequentialCallers == {1}

\* --------------------------------------------------- the image controllers
\* a query parameter: absent, or present with its text
Param(present, text) == [present |-> present, text |-> text]

Absent == Param(FALSE, <<>>)

\* a DesignConfig by its designId and mode; NoDesign is null
Design(designId, mode) == [designId |-> designId, mode |-> mode]

NoDesign == Design(<<>>, "null")

\* the letters in lower and in upper case
lowerLetters ==
  <<"a", "b", "c", "d", "e", "f", "g", "h", "i", "j", "k", "l", "m",
    "n", "o", "p", "q", "r", "s", "t", "u", "v", "w", "x", "y", "z">>

upperLetters ==
  <<"A", "B", "C", "D", "E", "F", "G", "H", "I", "J", "K", "L", "M",
    "N", "O", "P", "Q", "R", "S", "T", "U", "V", "W", "X", "Y", "Z">>

toLowerCaseKeepsCase(s) == s

\* day.toLowerCase()
toLowerCase(s) ==
  [i \in 1..Len(s) |->
     IF \E k \in 1..Len(upperLetters) : upperLetters[k] = s[i]
     THEN lowerLetters[CHOOSE k \in 1..Len(upperLetters) : upperLetters[k] = s[i]]
     ELSE s[i]]

\* initializeConfigs: the config set under the key of each weekday, with
\* designId 'fixed-<key>-design' and mode 'fixed'
initializeConfigs ==
  [key \in {days[i] : i \in 1..Len(days)} |-> Design(FixedDesignId(key), "fixed")]

\* a call of the provider, its argument and what it returned
ProviderCall(op, day, returned) == [op |-> op, day |-> day, returned |-> returned]

\* s with the letters at the positions in upper raised
upperAt(s, upper) ==
  [i \in 1..Len(s) |->
     IF i \in upper /\ \E k \in 1..Len(lowerLetters) : lowerLetters[k] = s[i]
     THEN upperLetters[CHOOSE k \in 1..Len(lowerLetters) : lowerLetters[k] = s[i]]
     ELSE s[i]]

\* the arguments of getFixedDesignByDay: every weekday in lower case, in
\* upper case, capitalised and in mixed case, and strings that name no day
DayStrings ==
  {upperAt(days[i], upper) : i \in 1..Len(days), upper \in {{}, 1..9, {1}, {2, 4, 5}}} \cup
  {<<>>, <<"f", "u", "n", "d", "a", "y">>, <<"m", "o", "n">>,
   Monday \o <<" ">>, Monday \o <<"s">>, FixedDesignId(Monday)}

\* DesignConfigsProvider.getRandomDesign, n = Math.floor(Math.random() * 100)
getRandomDesign(n) == Design(RandomDesignId(n), "random")

\* the values of n drawn
RandomDesignNumbers == {0, 7, 42, 99}

\* the default value of the mode parameter
modeOf(mode) == IF mode.present THEN mode.text ELSE <<"r", "a", "n", "d", "o", "m">>

ModeFixed == <<"f", "i", "x", "e", "d">>

selectsFixedByModeAlone(mode, day) == modeOf(mode) = ModeFixed

\* mode === 'fixed' && day
selectsFixed(mode, day) == modeOf(mode) = ModeFixed /\ day.present /\ day.text # <<>>

\* a request: the endpoint, its query and the design chosen for it
Request(pc, endpoint, mode, day, design) ==
  [pc |-> pc, endpoint |-> endpoint, mode |-> mode, day |-> day, design |-> design]

NoRequest == Request("idle", "none", Absent, Absent, NoDesign)

Endpoints == {"quote-image", "word-image"}

ModeParams == {Absent, Param(TRUE, ModeFixed), Param(TRUE, <<"r", "a", "n", "d", "o", "m">>)}

DayParams ==
  {Absent, Param(TRUE, <<>>), Param(TRUE, <<"M", "o", "n", "d", "a", "y">>),
   Param(TRUE, <<"f", "u", "n", "d", "a", "y">>)} \cup
  {Param(TRUE, days[i]) : i \in 1..Len(days)}

\* ------------------------------------------- WordsService.getRandomWord
\* a row of the word table
Word(id, lastUsedAt, usageCount) ==
  [id |-> id, lastUsedAt |-> lastUsedAt, usageCount |-> usageCount]

NoWord == Word(0, NeverUsed, 0)

\* SEED_WORDS: the first two seed words
SEED_WORDS == {1, 2}

\* prisma.word.update: lastUsedAt: new Date(), usageCount: selectedWord.usageCount + 1
updateUsage(rows, selectedWord, now) ==
  {IF r.id = selectedWord.id THEN Word(r.id, now, selectedWord.usageCount + 1) ELSE r : r \in rows}

\* the state of one call of getRandomWord
RandomWordCall(pc, selectedWord, returned) ==
  [pc |-> pc, selectedWord |-> selectedWord, returned |-> returned]

NoRandomWordCall == RandomWordCall("idle", NoWord, NoWord)

WordCallers == {1, 2}

\* ------------------------------- generateWordImage: the fonts and layout
wordFontSize == 140
wordY == 300
partOfSpeechFontSize == 40
headingFontSize == 44
definitionFontSize == 40
definitionPadding == 30
exampleFontSize == 40
examplePadding == 30
blockGap == 60

\* a font string built by a template literal: the weight or style, what the
\* template puts between it and the size, the size in px, the family of the
\* day and the fallback family of the design
FontString(weight, sep, size, family, fallback) ==
  [weight |-> weight, sep |-> sep, size |-> size, family |-> family, fallback |-> fallback]

\* the font of the context
Font(weight, size, family, fallback) ==
  [weight |-> weight, size |-> size, family |-> family, fallback |-> fallback]

\* the font of a new context: '10px sans-serif'
DefaultFont == Font("normal", 10, "sans-serif", "")

\* `bold ${wordFontSize}px ${titleFont}, ${design.typography.title.fontFamily || 'Arial'}`
wordFontString == FontString("bold", " ", wordFontSize, "titleFont", "title")

partOfSpeechFontString == FontString("italic", " ", partOfSpeechFontSize, "bodyFont", "author")

headingFontString == FontString("bold", " ", headingFontSize, "titleFont", "title")

\* `bold${definitionFontSize}px ${bodyFont}, ${design.typography.quote.fontFamily || 'Arial'}`
definitionFontString == FontString("bold", "", definitionFontSize, "bodyFont", "quote")

exampleFontString == FontString("italic", " ", exampleFontSize, "bodyFont", "author")

\* a font string is well formed when the weight or style is a word of its own
wellFormed(s) == s.sep = " "

\* the font a well-formed string names
named(s) == Font(s.weight, s.size, s.family, s.fallback)

\* ctx.font = s: a well-formed string sets the font it names; a string that
\* is not well formed is ignored by the canvas, or parsed from its size on
\* with the weight lost, depending on the canvas library
assignFont(current, s) ==
  IF wellFormed(s) THEN {named(s)}
  ELSE {current, Font("normal", s.size, s.family, s.fallback)}

\* a block painted: the font of the context when it was measured and
\* painted, the baselines of its first and last line, and its box
Block(name, font, firstY, lastY, boxTop, boxBottom) ==
  [name |-> name, font |-> font, firstY |-> firstY, lastY |-> lastY,
   boxTop |-> boxTop, boxBottom |-> boxBottom]

\* a heading or a single line without a box
Line(name, font, y) == Block(name, font, y, y, y, y)

\* wrapped.length * (fontSize * 1.3) + padding * 2
boxHeight(lines, fontSize, padding) == lines * (fontSize * 13) + Px(padding) * 2

\* a block of wrapped lines in its rounded rectangle, drawn at currentY
boxed(name, font, currentY, lines, fontSize, padding) ==
  Block(name, font,
        currentY + Px(padding),
        currentY + Px(padding) + (lines - 1) * (fontSize * 13),
        currentY - Px(fontSize) \div 2,
        currentY - Px(fontSize) \div 2 + boxHeight(lines, fontSize, padding))

\* the drawing of one word image
WordImage(pc, partOfSpeech, example, currentY, font, blocks) ==
  [pc |-> pc, partOfSpeech |-> partOfSpeech, example |-> example,
   currentY |-> currentY, font |-> font, blocks |-> blocks]

NoWordImage == WordImage("idle", FALSE, FALSE, 0, DefaultFont, <<>>)

\* ------------------------------ QuoteImageController.generateQuoteImage
\* the handling of one request: its query, what the lookups gave, whether
\* the renderer was called, the HttpExceptions thrown inside the handler, the
\* answer, and whether an exception left the handler
Handler(pc, mode, day, design, quote, placeholderSeen, rendered, thrown, answer, escaped) ==
  [pc |-> pc, mode |-> mode, day |-> day, design |-> design, quote |-> quote,
   placeholderSeen |-> placeholderSeen, rendered |-> rendered, thrown |-> thrown,
   answer |-> answer, escaped |-> escaped]

\* the design lookup threw
DesignThrew == Design(<<>>, "threw")

NoHandler ==
  Handler("idle", Absent, Absent, NoDesign, "none", FALSE, FALSE, <<>>, "none", FALSE)

\* { imageUrl: `/generated-images/thoughts/placeholder.png` }
PlaceholderUrl == "/generated-images/thoughts/placeholder.png"

\* the imageUrl the renderer returned
RenderedUrl == "/generated-images/thoughts/quote.png"

\* the inner catch blocks: the placeholder if the file exists, else an
\* HttpException with the message
innerCatch(exists, message) ==
  IF exists THEN [pc |-> "done", answer |-> PlaceholderUrl, thrown |-> <<>>]
  ELSE [pc |-> "outerCatch", answer |-> "none", thrown |-> <<message>>]

lastResortRethrows(exists) ==
  IF exists THEN [answer |-> PlaceholderUrl, escaped |-> FALSE]
  ELSE [answer |-> "none", escaped |-> TRUE]

\* the outer catch: the placeholder URL whether the file exists or not
lastResort(exists) == [answer |-> PlaceholderUrl, escaped |-> FALSE]

\* ------------------------------------- QuotesService.fetchNewQuotes
\* the (text, author) pairs: that of a seed quote and two others
SeedPair == "seed"

QuotePairs == {SeedPair, "a", "b"}

\* the answers of a quote source to one request: a quote, data without text
\* or author, or a failed request
SourceAnswers == QuotePairs \cup {"invalid", "error"}

\* the quote sources, in the order they are tried
quoteSources == <<"quotable", "zen-quotes">>

\* a row of the quote table
QuoteRow(id, pair) == [id |-> id, pair |-> pair]

pairsOf(rows) == {r.pair : r \in rows}

createAnyway(rows, pair, dbError) ==
  IF dbError THEN [rows |-> rows, created |-> FALSE]
  ELSE [rows |-> rows \cup {QuoteRow(Cardinality(rows) + 1, pair)}, created |-> TRUE]

\* prisma.quote.create under @@unique([text, author]): a row with a new id,
\* or an error (P2002 for a pair that is stored, or another error)
create(rows, pair, dbError) ==
  IF dbError \/ pair \in pairsOf(rows) THEN [rows |-> rows, created |-> FALSE]
  ELSE [rows |-> rows \cup {QuoteRow(Cardinality(rows) + 1, pair)}, created |-> TRUE]

\* fetchQuotesFromSource: the answers are taken one by one; an invalid one
\* is skipped, one that findFirst finds in the table is skipped, a failed
\* request ends the loop; the others are queued
RECURSIVE fetchQuotesFromSource(_, _)
fetchQuotesFromSource(rows, answers) ==
  IF answers = <<>> \/ Head(answers) = "error" THEN <<>>
  ELSE IF Head(answers) = "invalid" \/ Head(answers) \in pairsOf(rows)
       THEN fetchQuotesFromSource(rows, Tail(answers))
       ELSE <<Head(answers)>> \o fetchQuotesFromSource(rows, Tail(answers))

\* a fetchNewQuotes run: the source being fetched, the sources tried and
\* those with a failed request, the quotes queued by the source, those still
\* to save, those saved, and the positions whose create met a database error
Fetch(pc, source, tried, failed, batch, queue, saved, erred) ==
  [pc |-> pc, source |-> source, tried |-> tried, failed |-> failed,
   batch |-> batch, queue |-> queue, saved |-> saved, erred |-> erred]

NoFetch == Fetch("idle", 0, {}, {}, <<>>, <<>>, <<>>, {})

\* ------------------------------------------------------------- the state
VARIABLES
  callNo,       \* number of render calls started
  pc,           \* the statement the running call is at; "idle" between calls
  opts,         \* the options of the running call
  log,          \* the painting calls made on the call's canvas, in order
  shadowColor,  \* ctx.shadowColor of the call's context
  bgStops,      \* the colour stops of the call's background gradient
  layout,       \* the geometry of the quote image
  wordLines,    \* lines wrapText returned for the definition and the example
  theme,        \* the theme-dependent selections made so far by the call
  encoded,      \* canvas.toBuffer has run in this call
  wrote,        \* fs.writeFileSync has written a file in this call
  failedAt,     \* the stage an exception came from, "none" if none
  envFault,     \* that exception was thrown by the canvas, the wrapper or fs
  result,       \* the value the call resolved to
  raised,       \* an exception left generateQuoteImage / generateWordImage
  clock,        \* the reading of the system clock, in milliseconds
  saves,        \* the references of the files written, in order
  storageImpl,  \* which definition of ImageStorage is linked (1 or 2)
  resolutions,  \* theme resolutions made in this process (SpecTheme)
  typography,   \* design.typography of the call
  inks,         \* ctx.font family and ctx.fillStyle of each text painted
  fontRegistry, \* the process-wide font table of the canvas library
  wrap,         \* the call of the text wrapper in progress (SpecWrap)
  apiFailCount, \* WordService.apiFailCount
  wcall,        \* the call of WordService.getWordOfTheDay in progress
  wordStore,    \* the rows of the word table
  quoteStore,   \* the rows of the quote table
  qcall,        \* the calls of QuotesService.getRandomQuote in progress
  today,          \* the date, in days since the process started
  req,          \* the request an image controller is handling
  wordRows,     \* the rows of the word table with their usage statistics
  rcall,        \* the calls of WordsService.getRandomWord in progress
  returnCount,  \* for each word, the number of calls that returned it
  designConfigs, \* DesignConfigsProvider.designConfigs
  providerLog,  \* the calls of the provider made so far
  wimg,         \* the word image being drawn: position, ctx.font, blocks
  handler,      \* the GET /image/quote-image request being handled
  quoteRows,    \* the rows of the quote table: id and (text, author)
  fetch         \* the fetchNewQuotes run in progress

vars ==
  <<callNo, pc, opts, log, shadowColor, bgStops, layout, wordLines, theme,
    encoded, wrote, failedAt, envFault, result, raised, clock, saves,
    storageImpl, resolutions, typography, inks, fontRegistry, wrap,
    apiFailCount, wcall, wordStore, quoteStore, qcall, today, req,
    wordRows, rcall, returnCount, designConfigs, providerLog, wimg, handler,
    quoteRows, fetch>>

\* the variables of the word service
wordVars == <<apiFailCount, wcall, wordStore>>

\* the variables of the services behind the image endpoints
\* the variables of the quote service
quoteVars == <<quoteStore, qcall, today>>

\* the variables of the image controllers
controllerVars == <<req>>

\* the variables of WordsService.getRandomWord
wordsVars == <<wordRows, rcall, returnCount>>

\* the variables of the subsystems modelled after the controllers
\* the variables of DesignConfigsProvider
providerVars == <<designConfigs, providerLog>>

\* the variables of the subsystems modelled last
restVars == <<wimg, handler, quoteRows, fetch>>

extraVars == <<wordsVars, providerVars, restVars>>

svcVars == <<wordVars, quoteVars, controllerVars, extraVars, extraVars>>

Init ==
  /\ callNo = 0
  /\ pc = "idle"
  /\ opts = NoOptions
  /\ log = <<>>
  /\ shadowColor = Transparent
  /\ bgStops = <<>>
  /\ layout = NoLayout
  /\ wordLines = [definition |-> 0, example |-> 0]
  /\ theme = NoTheme
  /\ encoded = FALSE
  /\ wrote = FALSE
  /\ failedAt = "none"
  /\ envFault = FALSE
  /\ result = NoResult
  /\ raised = FALSE
  /\ clock = MsPerSecond - 1
  /\ saves = <<>>
  /\ storageImpl \in {1, 2}
  /\ resolutions = {}
  /\ typography = NoTypography
  /\ inks = NoInks
  /\ fontRegistry = FontRegistry(FALSE, <<>>, 0)
  /\ wrap = NoWrap
  /\ apiFailCount = 0
  /\ wcall = NoWordCall
  /\ wordStore = {}
  /\ quoteStore = {}
  /\ qcall = [c \in QuoteCallers |-> NoQuoteCall]
  /\ today = 0
  /\ req = NoRequest
  /\ wordRows = {}
  /\ rcall = [c \in WordCallers |-> NoRandomWordCall]
  /\ returnCount = [id \in SEED_WORDS |-> 0]
  /\ designConfigs = initializeConfigs
  /\ providerLog = <<>>
  /\ wimg = NoWordImage
  /\ handler = NoHandler
  /\ quoteRows = {}
  /\ fetch = NoFetch

\* DesignConfigsProvider.getFixedDesignByDay: the config stored under the
\* lower-cased day, or null
getFixedDesignByDay(day) ==
  IF toLowerCase(day) \in DOMAIN designConfigs
  THEN designConfigs[toLowerCase(day)]
  ELSE NoDesign

\* DesignService.findByDay
findByDay(day) == getFixedDesignByDay(day)

\* DesignConfigsProvider.getAllDesigns: the stored configs
getAllDesigns == {designConfigs[key] : key \in DOMAIN designConfigs}

\* -------------------------------------------------- exceptions and catches
outerCatchRethrows(kind) ==
  [pc |-> "done", result |-> NoResult, raised |-> TRUE]

outerCatchThenSaves(kind) ==
  [pc |-> "save", result |-> NoResult, raised |-> FALSE]

\* the catch of the try that encloses the whole body of generateQuoteImage /
\* generateWordImage: log the error, return the placeholder
outerCatch(kind) ==
  [pc |-> "done", result |-> placeholder(kind), raised |-> FALSE]

\* the catch around the call of ImageStorage.saveImage
saveCatch(kind) == placeholder(kind)

\* an exception is thrown in the stage; env says that the canvas, the text
\* wrapper or the file system threw it
Throws(stage, env) ==
  /\ pc' = outerCatch(opts.kind).pc
  /\ result' = outerCatch(opts.kind).result
  /\ raised' = outerCatch(opts.kind).raised
  /\ failedAt' = stage
  /\ envFault' = env
  /\ UNCHANGED <<callNo, opts, log, shadowColor, bgStops, layout, wordLines,
                 theme, encoded, wrote, clock, saves, storageImpl, resolutions,
                 typography, inks, fontRegistry, wrap, svcVars>>

\* the stage paints `paints`, leaves ctx.shadowColor = shadow and goes to next
Paints(paints, shadow, next) ==
  /\ log' = log \o paints
  /\ shadowColor' = shadow
  /\ pc' = next
  /\ inks' = inked(inks, typography, paints)
  /\ UNCHANGED <<callNo, opts, encoded, wrote, failedAt, envFault, result,
                 raised, clock, saves, storageImpl, resolutions, typography, fontRegistry, wrap, svcVars>>

\* a call begins: a fresh canvas and context
Begin(o, t, first) ==
  /\ pc = "idle"
  /\ fontRegistry.initialised
  /\ callNo < MaxCalls
  /\ callNo' = callNo + 1
  /\ opts' = o
  /\ pc' = first
  /\ log' = <<>>
  /\ shadowColor' = Transparent
  /\ bgStops' = <<>>
  /\ layout' = NoLayout
  /\ wordLines' = [definition |-> 0, example |-> 0]
  /\ theme' = Theme(o.kind, o.designId, 0, <<>>, "", NoCard, {})
  /\ encoded' = FALSE
  /\ wrote' = FALSE
  /\ failedAt' = "none"
  /\ envFault' = FALSE
  /\ result' = NoResult
  /\ raised' = FALSE
  /\ typography' = t
  /\ inks' = NoInks
  /\ UNCHANGED <<clock, saves, storageImpl, resolutions, fontRegistry, wrap, svcVars>>

\* ------------------------------------------ WordImageService.onModuleInit
\* the framework calls onModuleInit once, before the application listens
OnModuleInit ==
  /\ fontRegistry.calls = 0
  /\ ~fontRegistry.initialised
  /\ \E registered \in 0..Len(customFonts) :
       fontRegistry' = onModuleInit(registered)
  /\ UNCHANGED <<callNo, pc, opts, log, shadowColor, bgStops, layout, wordLines,
                 theme, encoded, wrote, failedAt, envFault, result, raised,
                 clock, saves, storageImpl, resolutions, typography, inks, wrap, svcVars>>

\* ------------------------------------- QuoteImageService.generateQuoteImage
StartQuote == \E o \in QuoteOptions : Begin(o, CompleteTypography, "q_background")

\* the background: applyGradientBackground or a solid fill
QuoteBackground ==
  /\ pc = "q_background"
  /\ \/ /\ ~opts.hasDesign
        /\ Throws("background", FALSE)
     \/ /\ opts.hasDesign
        /\ Throws("background", TRUE)
     \/ /\ opts.hasDesign
        /\ opts.bgType = "gradient"
        /\ IF applyGradientBackground(opts.color).threw
           THEN Throws("background", FALSE)
           ELSE /\ bgStops' = applyGradientBackground(opts.color).stops
                /\ Paints(<<Paint("background", shadowColor),
                            Paint("texture", shadowColor)>>,
                          shadowColor, "q_wrap")
                /\ UNCHANGED <<layout, wordLines, theme>>
     \/ /\ opts.hasDesign
        /\ opts.bgType # "gradient"
        /\ Paints(<<Paint("background", shadowColor)>>, shadowColor, "q_wrap")
        /\ UNCHANGED <<bgStops, layout, wordLines, theme>>

\* the title is measured, the quote is wrapped, the geometry is computed
QuoteWrap ==
  /\ pc = "q_wrap"
  /\ \/ Throws("wrap", TRUE)
     \/ \E n \in 1..MaxLines :
          /\ layout' = QuoteLayout(n)
          /\ Paints(<<>>, shadowColor, "q_title")
          /\ UNCHANGED <<bgStops, wordLines, theme>>

\* the title is painted with a shadow and the shadow is reset
drawTitle(shadow) ==
  [paints |-> <<Paint("title", "rgba(0, 0, 0, 0.3)")>>,
   shadow |-> Transparent]

QuoteTitle ==
  /\ pc = "q_title"
  /\ \/ Throws("title", TRUE)
     \/ /\ Paints(drawTitle(shadowColor).paints, drawTitle(shadowColor).shadow,
                  "q_card")
        /\ UNCHANGED <<bgStops, layout, wordLines, theme>>

QuoteCard ==
  /\ pc = "q_card"
  /\ \/ Throws("card", TRUE)
     \/ /\ Paints(drawStylizedCard(shadowColor, opts.designId).paints,
                  drawStylizedCard(shadowColor, opts.designId).shadow, "q_body")
        /\ theme' = [theme EXCEPT !.card = cardStyle(opts.designId)]
        /\ UNCHANGED <<bgStops, layout, wordLines>>

\* wrappedQuote.forEach: one fillText for each line
QuoteBody ==
  /\ pc = "q_body"
  /\ \/ Throws("body", TRUE)
     \/ /\ Paints(Repeat(Paint("body", shadowColor), layout.lines), shadowColor,
                  "q_author")
        /\ UNCHANGED <<bgStops, layout, wordLines, theme>>

QuoteAuthor ==
  /\ pc = "q_author"
  /\ \/ Throws("author", TRUE)
     \/ /\ Paints(<<Paint("author", shadowColor)>>, shadowColor, "q_decoration")
        /\ UNCHANGED <<bgStops, layout, wordLines, theme>>

\* the decoration of the day, drawn between ctx.save() and ctx.restore()
QuoteDecoration ==
  /\ pc = "q_decoration"
  /\ \/ Throws("decoration", TRUE)
     \/ /\ Paints(<<Paint("decoration", shadowColor)>>, shadowColor, "save")
        /\ theme' = [theme EXCEPT !.decoration = quoteDecoration(opts.designId)]
        /\ UNCHANGED <<bgStops, layout, wordLines>>

\* --------------------------------------- WordImageService.generateWordImage
StartWord == \E o \in WordOptions : Begin(o, CompleteTypography, "w_dayIndex")

\* the fonts of the day: getDayIndex(design.designId)
WordDayIndex ==
  /\ pc = "w_dayIndex"
  /\ \/ /\ ~opts.hasDesign
        /\ Throws("dayIndex", FALSE)
     \/ /\ opts.hasDesign
        /\ \E r \in RandomDraws :
             theme' = [theme EXCEPT
                         !.fontIndex = getDayIndex(opts.designId, r).value,
                         !.drew = IF getDayIndex(opts.designId, r).drew
                                  THEN @ \cup {"fontIndex"} ELSE @]
        /\ Paints(<<>>, shadowColor, "w_background")
        /\ UNCHANGED <<bgStops, layout, wordLines>>

\* createDayBackground: the gradient, the texture overlay, the decorations
WordBackground ==
  /\ pc = "w_background"
  /\ \/ Throws("background", TRUE)
     \/ /\ \E r \in RandomDraws :
             /\ bgStops' = createDayBackground(opts.designId, r).stops
             /\ theme' = [theme EXCEPT
                            !.stops = createDayBackground(opts.designId, r).stops,
                            !.decoration = addDecorativeElements(opts.designId),
                            !.drew = IF createDayBackground(opts.designId, r).drew
                                     THEN @ \cup {"gradient"} ELSE @]
        /\ Paints(<<Paint("background", shadowColor),
                    Paint("texture", shadowColor),
                    Paint("decoration", shadowColor)>>, shadowColor, "w_word")
        /\ UNCHANGED <<layout, wordLines>>

\* the word is painted with a shadow and the shadow is reset
drawWord(shadow) ==
  [paints |-> <<Paint("word", "rgba(0,0,0,0.3)")>>, shadow |-> Transparent]

WordWord ==
  /\ pc = "w_word"
  /\ \/ Throws("word", TRUE)
     \/ /\ Paints(drawWord(shadowColor).paints, drawWord(shadowColor).shadow,
                  "w_partOfSpeech")
        /\ UNCHANGED <<bgStops, layout, wordLines, theme>>

\* if (partOfSpeech) { ... fillText ... }
WordPartOfSpeech ==
  /\ pc = "w_partOfSpeech"
  /\ \/ /\ opts.partOfSpeech
        /\ Throws("partOfSpeech", TRUE)
     \/ /\ Paints(IF opts.partOfSpeech
                  THEN <<Paint("partOfSpeech", shadowColor)>> ELSE <<>>,
                  shadowColor, "w_meaning")
        /\ UNCHANGED <<bgStops, layout, wordLines, theme>>

\* a heading: the two rules beside it, then its text
drawHeading(shadow) ==
  <<Paint("rule", shadow), Paint("rule", shadow), Paint("heading", shadow)>>

WordMeaning ==
  /\ pc = "w_meaning"
  /\ \/ Throws("meaning", TRUE)
     \/ /\ Paints(drawHeading(shadowColor), shadowColor, "w_definition")
        /\ UNCHANGED <<bgStops, layout, wordLines, theme>>

\* a box filled with a shadow, the shadow reset, then the n lines inside it
drawBox(shadow, lineOp, n) ==
  [paints |-> <<Paint("box_fill", "rgba(0,0,0,0.2)")>> \o
              Repeat(Paint(lineOp, Transparent), n),
   shadow |-> Transparent]

\* the definition is wrapped, its box is drawn, its lines are painted
WordDefinition ==
  /\ pc = "w_definition"
  /\ \/ Throws("definition", TRUE)
     \/ \E n \in 1..MaxWordLines :
          /\ wordLines' = [wordLines EXCEPT !.definition = n]
          /\ Paints(drawBox(shadowColor, "definition", n).paints,
                    drawBox(shadowColor, "definition", n).shadow, "w_example")
          /\ UNCHANGED <<bgStops, layout, theme>>

\* if (example) { heading, wrap, box, lines }
WordExample ==
  /\ pc = "w_example"
  /\ \/ /\ opts.example
        /\ Throws("example", TRUE)
     \/ /\ opts.example
        /\ \E n \in 1..MaxWordLines :
             /\ wordLines' = [wordLines EXCEPT !.example = n]
             /\ Paints(drawHeading(shadowColor) \o
                       drawBox(shadowColor, "example", n).paints,
                       drawBox(shadowColor, "example", n).shadow, "save")
        /\ UNCHANGED <<bgStops, layout, theme>>
     \/ /\ ~opts.example
        /\ Paints(<<>>, shadowColor, "save")
        /\ UNCHANGED <<bgStops, layout, wordLines, theme>>

\* ------------------------------------------- await ImageStorage.saveImage
\* the canvas is encoded, the file is written, its reference is returned; an
\* exception inside saveImage is caught by the caller's inner catch
Save ==
  /\ pc = "save"
  /\ \E outcome \in SaveOutcomes(storageImpl) :
       /\ encoded' = (outcome \in {"ok", "writeThrows"})
       /\ wrote' = (outcome = "ok")
       /\ saves' = IF outcome = "ok"
                   THEN Append(saves, saveImage(storageImpl, opts.kind, clock))
                   ELSE saves
       /\ result' = IF outcome = "ok"
                    THEN saveImage(storageImpl, opts.kind, clock)
                    ELSE saveCatch(opts.kind)
       /\ failedAt' = IF outcome = "ok" THEN failedAt ELSE "save"
       /\ envFault' = IF outcome = "ok" THEN envFault ELSE TRUE
  /\ pc' = "done"
  /\ UNCHANGED <<callNo, opts, log, shadowColor, bgStops, layout, wordLines,
                 theme, raised, clock, storageImpl, resolutions, typography,
                 inks, fontRegistry, wrap, svcVars>>

\* the caller has taken the resolved value; the call's canvas is dropped
Return ==
  /\ pc = "done"
  /\ pc' = "idle"
  /\ opts' = NoOptions
  /\ log' = <<>>
  /\ shadowColor' = Transparent
  /\ bgStops' = <<>>
  /\ layout' = NoLayout
  /\ wordLines' = [definition |-> 0, example |-> 0]
  /\ theme' = NoTheme
  /\ encoded' = FALSE
  /\ wrote' = FALSE
  /\ failedAt' = "none"
  /\ envFault' = FALSE
  /\ result' = NoResult
  /\ raised' = FALSE
  /\ typography' = NoTypography
  /\ inks' = NoInks
  /\ UNCHANGED <<callNo, clock, saves, storageImpl, resolutions, fontRegistry, wrap, svcVars>>

\* a millisecond passes between two calls
Tick ==
  /\ pc = "idle"
  /\ clock < MsPerSecond - 1 + MaxTicks
  /\ clock' = clock + 1
  /\ UNCHANGED <<callNo, pc, opts, log, shadowColor, bgStops, layout, wordLines,
                 theme, encoded, wrote, failedAt, envFault, result, raised,
                 saves, storageImpl, resolutions, typography, inks, fontRegistry, wrap, svcVars>>

Next ==
  \/ OnModuleInit
  \/ StartQuote \/ QuoteBackground \/ QuoteWrap \/ QuoteTitle \/ QuoteCard
  \/ QuoteBody \/ QuoteAuthor \/ QuoteDecoration
  \/ StartWord \/ WordDayIndex \/ WordBackground \/ WordWord
  \/ WordPartOfSpeech \/ WordMeaning \/ WordDefinition \/ WordExample
  \/ Save \/ Return \/ Tick

Spec == Init /\ [][Next]_vars

\* ------------------------------------------ repeated theme resolutions
\* the selections generateWordImage makes for designId, fontDraw and hueDraw
\* being what Math.random() returns when it is called
wordTheme(designId, fontDraw, hueDraw) ==
  Theme("word", designId,
        getDayIndex(designId, fontDraw).value,
        createDayBackground(designId, hueDraw).stops,
        addDecorativeElements(designId),
        NoCard,
        (IF getDayIndex(designId, fontDraw).drew THEN {"fontIndex"} ELSE {}) \cup
        (IF createDayBackground(designId, hueDraw).drew THEN {"gradient"} ELSE {}))

\* the selections generateQuoteImage makes for designId
quoteTheme(designId) ==
  Theme("quote", designId, 0, <<>>, quoteDecoration(designId),
        cardStyle(designId), {})

\* one resolution: the selections, and the draws the random source gave
Resolution(t, fontDraw, hueDraw) ==
  [theme |-> t, fontDraw |-> fontDraw, hueDraw |-> hueDraw]

ResolveWordTheme ==
  /\ Cardinality(resolutions) < MaxResolutions
  /\ \E d \in DesignIds, fontDraw \in RandomDraws, hueDraw \in RandomDraws :
       resolutions' = resolutions \cup
         {Resolution(wordTheme(d, fontDraw, hueDraw), fontDraw, hueDraw)}
  /\ UNCHANGED <<callNo, pc, opts, log, shadowColor, bgStops, layout, wordLines,
                 theme, encoded, wrote, failedAt, envFault, result, raised,
                 clock, saves, storageImpl, typography, inks, fontRegistry, wrap, svcVars>>

ResolveQuoteTheme ==
  /\ Cardinality(resolutions) < MaxResolutions
  /\ \E d \in DesignIds, fontDraw \in RandomDraws, hueDraw \in RandomDraws :
       resolutions' = resolutions \cup
         {Resolution(quoteTheme(d), fontDraw, hueDraw)}
  /\ UNCHANGED <<callNo, pc, opts, log, shadowColor, bgStops, layout, wordLines,
                 theme, encoded, wrote, failedAt, envFault, result, raised,
                 clock, saves, storageImpl, typography, inks, fontRegistry, wrap, svcVars>>

NextTheme == ResolveWordTheme \/ ResolveQuoteTheme

SpecTheme == Init /\ [][NextTheme]_vars

\* --------------------------------- renders of designs with fields missing
\* generateQuoteImage is called with a design whose typography has any of
\* its colour and font-family fields unset
StartStyledQuote ==
  \E t \in Typographies :
    Begin(Options("quote", TRUE, FixedDesignId(Tuesday), "solid", NoColor, FALSE, FALSE),
          t, "q_background")

NextTypography ==
  \/ OnModuleInit
  \/ StartStyledQuote \/ QuoteBackground \/ QuoteWrap \/ QuoteTitle \/ QuoteCard
  \/ QuoteBody \/ QuoteAuthor \/ QuoteDecoration
  \/ Save \/ Return \/ Tick

SpecTypography == Init /\ [][NextTypography]_vars

\* ------------------------------------------------- calls of the wrapper
imageVars ==
  <<callNo, pc, opts, log, shadowColor, bgStops, layout, wordLines, theme,
    encoded, wrote, failedAt, envFault, result, raised, clock, saves,
    storageImpl, resolutions, typography, inks, fontRegistry>>

\* wrap(text, maxWidth, startFontSize, minFontSize) is called
WrapStart ==
  /\ wrap.pc = "idle"
  /\ \E text \in Texts, maxWidth \in MaxWidths, minFontSize \in MinFontSizes,
        shrinks \in 0..MaxShrinks, maxBlockHeight \in MaxBlockHeights :
       wrap' = WrapCall(text, maxWidth, minFontSize + shrinks * ShrinkStep,
                        minFontSize, maxBlockHeight)
  /\ UNCHANGED <<imageVars, svcVars>>

\* steps 2 and 3: the next token is placed
WrapToken ==
  /\ wrap.pc = "fill"
  /\ wrap.pending # <<>>
  /\ LET token == Head(wrap.pending)
         prefixes == fittingPrefixes(token, wrap.maxWidth, wrap.fontSize)
         cut == hyphenate(token, Longest(prefixes))
     IN  IF measure(token, wrap.fontSize) > wrap.maxWidth
         THEN IF wrap.line # <<>>
              THEN wrap' = [wrap EXCEPT !.lines = Append(@, wrap.line), !.line = <<>>]
              ELSE IF prefixes = {}
                   THEN wrap' = [wrap EXCEPT !.pc = "fatal"]
                   ELSE wrap' = [wrap EXCEPT
                                   !.lines = Append(@, cut.fragment),
                                   !.pending = <<cut.rest>> \o Tail(@)]
         ELSE IF wrap.line = <<>>
              THEN wrap' = [wrap EXCEPT !.line = token, !.pending = Tail(@)]
              ELSE IF fitsOnLine(wrap.line, token, wrap.maxWidth, wrap.fontSize)
                   THEN wrap' = [wrap EXCEPT !.line = @ \o <<" ">> \o token,
                                             !.pending = Tail(@)]
                   ELSE wrap' = [wrap EXCEPT !.lines = Append(@, wrap.line),
                                             !.line = token,
                                             !.pending = Tail(@)]
  /\ UNCHANGED <<imageVars, svcVars>>

\* the last line is closed; the empty text gives a single empty line
WrapClose ==
  /\ wrap.pc = "fill"
  /\ wrap.pending = <<>>
  /\ wrap' = [wrap EXCEPT
                !.pc = "height",
                !.lines = IF wrap.line # <<>> \/ wrap.lines = <<>>
                          THEN Append(@, wrap.line) ELSE @,
                !.line = <<>>]
  /\ UNCHANGED <<imageVars, svcVars>>

\* step 4: the block fits or the floor is reached, or the font size is
\* decremented and the wrapping restarts from step 1
WrapShrink ==
  /\ wrap.pc = "height"
  /\ IF \/ Len(wrap.lines) * lineHeight(wrap.fontSize) <= wrap.maxBlockHeight
        \/ atFloor(wrap.fontSize, wrap.minFontSize)
     THEN wrap' = [wrap EXCEPT !.pc = "done"]
     ELSE wrap' = [wrap EXCEPT !.pc = "fill",
                               !.fontSize = @ - ShrinkStep,
                               !.pending = split(wrap.text),
                               !.line = <<>>,
                               !.lines = <<>>,
                               !.passes = @ + 1]
  /\ UNCHANGED <<imageVars, svcVars>>

\* the caller takes the block, or the layout error
WrapReturn ==
  /\ wrap.pc \in {"done", "fatal"}
  /\ wrap' = NoWrap
  /\ UNCHANGED <<imageVars, svcVars>>

NextWrap == WrapStart \/ WrapToken \/ WrapClose \/ WrapShrink \/ WrapReturn

SpecWrap == Init /\ [][NextWrap]_vars

\* ---------------------------------------------- WordService.getWordOfTheDay
\* WordsService.onModuleInit seeds the word table
SeedWords ==
  /\ wcall.pc = "idle"
  /\ wordStore = {}
  /\ wordStore' = {FALLBACK_WORDS[1].word}
  /\ UNCHANGED <<imageVars, wrap, quoteVars, controllerVars, extraVars, apiFailCount, wcall>>

\* the call begins: with the counter above 2 a fallback word is returned
GetWordOfTheDay ==
  /\ wcall.pc = "idle"
  /\ IF apiFailCount > breakerThreshold
     THEN \E randomIndex \in DOMAIN FALLBACK_WORDS :
            wcall' = WordCall("done", 0, <<>>, Null, apiFailCount,
                              getRandomFallbackWord(randomIndex), FALSE)
     ELSE wcall' = WordCall("api", 1, <<>>, Null, apiFailCount, NoWordData, FALSE)
  /\ UNCHANGED <<imageVars, wrap, quoteVars, controllerVars, extraVars, apiFailCount, wordStore>>

\* getRandomWordWithFallback: the next API is tried; a truthy word ends the
\* loop, and when the last API gave none the error is caught by the caller:
\* the counter is incremented and a fallback word is returned
TryApi ==
  /\ wcall.pc = "api"
  /\ \E response \in ApiResponses :
       LET got == getRandomWordFrom(response)
           seen == Append(wcall.responses, response)
       IN  IF ~got.threw /\ truthy(got.word)
           THEN /\ wcall' = [wcall EXCEPT !.pc = "details", !.word = got.word,
                                          !.responses = seen]
                /\ UNCHANGED apiFailCount
           ELSE IF wcall.api < Len(apis)
                THEN /\ wcall' = [wcall EXCEPT !.api = @ + 1, !.responses = seen]
                     /\ UNCHANGED apiFailCount
                ELSE /\ apiFailCount' = apiFailCount + 1
                     /\ \E randomIndex \in DOMAIN FALLBACK_WORDS :
                          wcall' = [wcall EXCEPT
                                      !.pc = "done", !.responses = seen,
                                      !.returned = getRandomFallbackWord(randomIndex)]
  /\ UNCHANGED <<imageVars, wrap, quoteVars, controllerVars, extraVars, wordStore>>

\* getWordDetails: the details of the word; on success the counter is reset,
\* on an exception it is incremented and a fallback word is returned
GetWordDetails ==
  /\ wcall.pc = "details"
  /\ \E lookup \in Lookups :
       LET details == getWordDetails(wcall.word, lookup)
       IN  IF details.threw
           THEN /\ apiFailCount' = apiFailCount + 1
                /\ \E randomIndex \in DOMAIN FALLBACK_WORDS :
                     wcall' = [wcall EXCEPT
                                 !.pc = "done",
                                 !.returned = getRandomFallbackWord(randomIndex)]
           ELSE /\ apiFailCount' = 0
                /\ wcall' = [wcall EXCEPT
                               !.pc = "done",
                               !.returned =
                                 WordData(wcall.word,
                                          IF truthy(details.definition)
                                          THEN details.definition
                                          ELSE DefinitionOf(wcall.word),
                                          "api")]
  /\ UNCHANGED <<imageVars, wrap, quoteVars, controllerVars, extraVars, wordStore>>

\* the caller takes the WordData
WordReturn ==
  /\ wcall.pc = "done"
  /\ wcall' = NoWordCall
  /\ UNCHANGED <<imageVars, wrap, quoteVars, controllerVars, extraVars, apiFailCount, wordStore>>

NextWord == SeedWords \/ GetWordOfTheDay \/ TryApi \/ GetWordDetails \/ WordReturn

SpecWord == Init /\ [][NextWord]_vars

\* the word endpoint keeps being called and every call runs to its end
SpecWordFair == SpecWord /\ WF_vars(NextWord)

\* -------------------------------------------- QuotesService.getRandomQuote
\* seedInitialQuotes: each create may fail, and the failure is swallowed
seedInitialQuotes(rows, created) ==
  rows \cup {Quote(id, NeverUsed, 0) : id \in {i \in created : \A r \in rows : r.id # i}}

\* QuotesService.onModuleInit seeds the empty table
SeedQuotes ==
  /\ quoteStore = {}
  /\ \A c \in QuoteCallers : qcall[c].pc = "idle"
  /\ \E created \in SUBSET SEED_QUOTES : quoteStore' = seedInitialQuotes(quoteStore, created)
  /\ quoteStore' # quoteStore
  /\ UNCHANGED <<imageVars, wrap, wordVars, controllerVars, extraVars, qcall, today>>

\* days pass between two calls
DaysPass ==
  /\ \A c \in QuoteCallers : qcall[c].pc = "idle"
  /\ \E d \in {cooldownDays, cooldownDays + 1} :
       /\ today + d <= MaxDay
       /\ today' = today + d
  /\ UNCHANGED <<imageVars, wrap, wordVars, controllerVars, extraVars, quoteStore, qcall>>

\* a call begins
QuoteStart(c) ==
  /\ qcall[c].pc = "idle"
  /\ \A r \in quoteStore : r.usageCount < MaxUses
  /\ qcall' = [qcall EXCEPT ![c] = QuoteCall("count", 0, NoQuote, NoQuote)]
  /\ UNCHANGED <<imageVars, wrap, wordVars, controllerVars, extraVars, quoteStore, today>>

\* prisma.quote.count(): an empty table is seeded first; the cutoff is set
QuoteCount(c) ==
  /\ qcall[c].pc = "count"
  /\ \/ qcall' = [qcall EXCEPT ![c].pc = "done", ![c].returned = NoQuote]
     \/ /\ quoteStore = {}
        /\ qcall' = [qcall EXCEPT ![c].pc = "seed"]
     \/ /\ quoteStore # {}
        /\ qcall' = [qcall EXCEPT ![c].pc = "select",
                                  ![c].thirtyDaysAgo = today - cooldownDays]
  /\ UNCHANGED <<imageVars, wrap, wordVars, controllerVars, extraVars, quoteStore, today>>

\* await this.seedInitialQuotes(); return this.getRandomQuote()
QuoteSeed(c) ==
  /\ qcall[c].pc = "seed"
  /\ \E created \in SUBSET SEED_QUOTES : quoteStore' = seedInitialQuotes(quoteStore, created)
  /\ qcall' = [qcall EXCEPT ![c].pc = "count"]
  /\ UNCHANGED <<imageVars, wrap, wordVars, controllerVars, extraVars, today>>

\* the two findMany queries and the random selection among their rows
QuoteSelect(c) ==
  /\ qcall[c].pc = "select"
  /\ \/ qcall' = [qcall EXCEPT ![c].pc = "done", ![c].returned = NoQuote]
     \/ /\ candidates(quoteStore, qcall[c].thirtyDaysAgo) = {}
        /\ qcall' = [qcall EXCEPT ![c].pc = "done", ![c].returned = NoQuote]
     \/ \E q \in candidates(quoteStore, qcall[c].thirtyDaysAgo) :
          qcall' = [qcall EXCEPT ![c].pc = "update", ![c].quote = q]
  /\ UNCHANGED <<imageVars, wrap, wordVars, controllerVars, extraVars, quoteStore, today>>

\* the quote is marked used and the row read before is returned; an error of
\* the update is caught and null is returned
QuoteUpdate(c) ==
  /\ qcall[c].pc = "update"
  /\ \/ /\ qcall' = [qcall EXCEPT ![c].pc = "done", ![c].returned = NoQuote]
        /\ UNCHANGED quoteStore
     \/ /\ quoteStore' = markUsed(quoteStore, qcall[c].quote.id, today)
        /\ qcall' = [qcall EXCEPT ![c].pc = "done", ![c].returned = qcall[c].quote]
  /\ UNCHANGED <<imageVars, wrap, wordVars, controllerVars, extraVars, today>>

\* the caller takes the quote or null
QuoteReturn(c) ==
  /\ qcall[c].pc = "done"
  /\ qcall' = [qcall EXCEPT ![c] = NoQuoteCall]
  /\ UNCHANGED <<imageVars, wrap, wordVars, controllerVars, extraVars, quoteStore, today>>

NextQuotes ==
  \/ SeedQuotes
  \/ DaysPass
  \/ \E c \in SequentialCallers :
       \/ QuoteStart(c) \/ QuoteCount(c) \/ QuoteSeed(c)
       \/ QuoteSelect(c) \/ QuoteUpdate(c) \/ QuoteReturn(c)

SpecQuotes == Init /\ [][NextQuotes]_vars

\* every call in progress keeps taking its steps
SpecQuotesFair == SpecQuotes /\ WF_vars(NextQuotes)

\* two getRandomQuote calls in progress at once (two requests being served):
\* every await of a call is a point where the other call can take steps
NextQuotesConcurrent ==
  \/ SeedQuotes
  \/ DaysPass
  \/ \E c \in QuoteCallers :
       \/ QuoteStart(c) \/ QuoteCount(c) \/ QuoteSeed(c)
       \/ QuoteSelect(c) \/ QuoteUpdate(c) \/ QuoteReturn(c)

SpecQuotesConcurrent == Init /\ [][NextQuotesConcurrent]_vars

\* ------------------ generateQuoteImage / generateWordImage (controllers)
\* the handler determines the design from the query parameters
DetermineDesign(endpoint, mode, day) ==
  /\ req.pc = "idle"
  /\ IF selectsFixed(mode, day)
     THEN req' = Request("designed", endpoint, mode, day, findByDay(day.text))
     ELSE \E n \in RandomDesignNumbers :
            req' = Request("designed", endpoint, mode, day, getRandomDesign(n))
  /\ UNCHANGED <<imageVars, wrap, wordVars, quoteVars, extraVars>>

\* the handler answers
Respond ==
  /\ req.pc = "designed"
  /\ req' = NoRequest
  /\ UNCHANGED <<imageVars, wrap, wordVars, quoteVars, extraVars>>

NextController ==
  \/ \E endpoint \in Endpoints, mode \in ModeParams, day \in DayParams :
       DetermineDesign(endpoint, mode, day)
  \/ Respond

SpecController == Init /\ [][NextController]_vars

\* ------------------------------------------- WordsService.getRandomWord
\* seedInitialWords: each create may fail, and the failure is swallowed
seedInitialWords(rows, created) ==
  rows \cup {Word(id, NeverUsed, 0) : id \in {i \in created : \A r \in rows : r.id # i}}

\* a call begins
RandomWordStart(c) ==
  /\ rcall[c].pc = "idle"
  /\ returnCount[1] + returnCount[2] < MaxReturns
  /\ rcall' = [rcall EXCEPT ![c] = RandomWordCall("count", NoWord, NoWord)]
  /\ UNCHANGED <<imageVars, wrap, wordVars, quoteVars, controllerVars, providerVars, restVars, wordRows, returnCount>>

\* prisma.word.count(): an error is caught and null is returned
RandomWordCount(c) ==
  /\ rcall[c].pc = "count"
  /\ \/ rcall' = [rcall EXCEPT ![c].pc = "done"]
     \/ /\ wordRows = {}
        /\ rcall' = [rcall EXCEPT ![c].pc = "seed"]
     \/ /\ wordRows # {}
        /\ rcall' = [rcall EXCEPT ![c].pc = "select"]
  /\ UNCHANGED <<imageVars, wrap, wordVars, quoteVars, controllerVars, providerVars, restVars, wordRows, returnCount>>

\* await this.seedInitialWords(); return this.getRandomWord()
RandomWordSeed(c) ==
  /\ rcall[c].pc = "seed"
  /\ \E created \in SUBSET SEED_WORDS : wordRows' = seedInitialWords(wordRows, created)
  /\ rcall' = [rcall EXCEPT ![c].pc = "count"]
  /\ UNCHANGED <<imageVars, wrap, wordVars, quoteVars, controllerVars, providerVars, restVars, returnCount>>

\* findMany of the five least recently used words and the random selection
RandomWordSelect(c) ==
  /\ rcall[c].pc = "select"
  /\ \/ rcall' = [rcall EXCEPT ![c].pc = "done"]
     \/ /\ firstRows(wordRows, takeLeastRecent) = {}
        /\ rcall' = [rcall EXCEPT ![c].pc = "done"]
     \/ \E selectedWord \in firstRows(wordRows, takeLeastRecent) :
          rcall' = [rcall EXCEPT ![c].pc = "update", ![c].selectedWord = selectedWord]
  /\ UNCHANGED <<imageVars, wrap, wordVars, quoteVars, controllerVars, providerVars, restVars, wordRows, returnCount>>

\* the usage statistics are written and the selected word is returned; an
\* error of the update is caught and null is returned
RandomWordUpdate(c) ==
  /\ rcall[c].pc = "update"
  /\ \/ /\ rcall' = [rcall EXCEPT ![c].pc = "done"]
        /\ UNCHANGED <<wordRows, returnCount>>
     \/ /\ wordRows' = updateUsage(wordRows, rcall[c].selectedWord, today)
        /\ rcall' = [rcall EXCEPT ![c].pc = "done", ![c].returned = rcall[c].selectedWord]
        /\ returnCount' = [returnCount EXCEPT ![rcall[c].selectedWord.id] = @ + 1]
  /\ UNCHANGED <<imageVars, wrap, wordVars, quoteVars, controllerVars, providerVars, restVars>>

\* the caller takes the word or null
RandomWordReturn(c) ==
  /\ rcall[c].pc = "done"
  /\ rcall' = [rcall EXCEPT ![c] = NoRandomWordCall]
  /\ UNCHANGED <<imageVars, wrap, wordVars, quoteVars, controllerVars, providerVars, restVars, wordRows, returnCount>>

\* the calls of two requests served at once: every await of a call is a
\* point where the other call can take steps
NextWords ==
  \E c \in WordCallers :
    \/ RandomWordStart(c) \/ RandomWordCount(c) \/ RandomWordSeed(c)
    \/ RandomWordSelect(c) \/ RandomWordUpdate(c) \/ RandomWordReturn(c)

SpecWords == Init /\ [][NextWords]_vars

\* --------------------------------------------------- DesignConfigsProvider
GetFixedDesignByDay ==
  /\ Len(providerLog) < MaxProviderCalls
  /\ \E day \in DayStrings :
       providerLog' = Append(providerLog,
                             ProviderCall("getFixedDesignByDay", day, {getFixedDesignByDay(day)}))
  /\ UNCHANGED <<imageVars, wrap, wordVars, quoteVars, controllerVars, wordsVars, restVars, designConfigs>>

GetRandomDesign ==
  /\ Len(providerLog) < MaxProviderCalls
  /\ \E n \in RandomDesignNumbers :
       providerLog' = Append(providerLog,
                             ProviderCall("getRandomDesign", <<>>, {getRandomDesign(n)}))
  /\ UNCHANGED <<imageVars, wrap, wordVars, quoteVars, controllerVars, wordsVars, restVars, designConfigs>>

GetAllDesigns ==
  /\ Len(providerLog) < MaxProviderCalls
  /\ providerLog' = Append(providerLog, ProviderCall("getAllDesigns", <<>>, getAllDesigns))
  /\ UNCHANGED <<imageVars, wrap, wordVars, quoteVars, controllerVars, wordsVars, restVars, designConfigs>>

NextProvider == GetFixedDesignByDay \/ GetRandomDesign \/ GetAllDesigns

SpecProvider == Init /\ [][NextProvider]_vars

\* ------------------------- generateWordImage: the blocks of the word image
\* the variables the drawing of the blocks leaves alone
notWimg == <<imageVars, wrap, wordVars, quoteVars, controllerVars, wordsVars, providerVars, handler, quoteRows, fetch>>

\* a call with or without a part of speech and an example: a new context
DrawStart ==
  /\ wimg.pc = "idle"
  /\ \E partOfSpeech \in BOOLEAN, example \in BOOLEAN :
       wimg' = WordImage("word", partOfSpeech, example, 0, DefaultFont, <<>>)
  /\ UNCHANGED notWimg

\* the word, at wordY; currentY = wordY + 60
DrawWord ==
  /\ wimg.pc = "word"
  /\ \E f \in assignFont(wimg.font, wordFontString) :
       wimg' = [wimg EXCEPT
                  !.pc = IF wimg.partOfSpeech THEN "partOfSpeech" ELSE "meaning",
                  !.font = f,
                  !.blocks = Append(@, Line("word", f, Px(wordY))),
                  !.currentY = Px(wordY) + Px(blockGap)]
  /\ UNCHANGED notWimg

\* the part of speech in italics below the word
DrawPartOfSpeech ==
  /\ wimg.pc = "partOfSpeech"
  /\ \E f \in assignFont(wimg.font, partOfSpeechFontString) :
       wimg' = [wimg EXCEPT
                  !.pc = "meaning",
                  !.font = f,
                  !.blocks = Append(@, Line("partOfSpeech", f, wimg.currentY)),
                  !.currentY = @ + Px(blockGap)]
  /\ UNCHANGED notWimg

\* the 'MEANING' heading
DrawMeaningHeading ==
  /\ wimg.pc = "meaning"
  /\ \E f \in assignFont(wimg.font, headingFontString) :
       wimg' = [wimg EXCEPT
                  !.pc = "definition",
                  !.font = f,
                  !.blocks = Append(@, Line("meaning", f, wimg.currentY)),
                  !.currentY = @ + Px(blockGap)]
  /\ UNCHANGED notWimg

\* the definition: the font is assigned, the text is wrapped into lines, the
\* box and the lines are painted
DrawDefinition ==
  /\ wimg.pc = "definition"
  /\ \E f \in assignFont(wimg.font, definitionFontString), lines \in 1..MaxBlockLines :
       wimg' = [wimg EXCEPT
                  !.pc = IF wimg.example THEN "sentence" ELSE "end",
                  !.font = f,
                  !.blocks = Append(@, boxed("definition", f, wimg.currentY, lines,
                                             definitionFontSize, definitionPadding)),
                  !.currentY = @ + boxHeight(lines, definitionFontSize, definitionPadding)
                                 + Px(blockGap)]
  /\ UNCHANGED notWimg

\* the 'SENTENCE' heading
DrawSentenceHeading ==
  /\ wimg.pc = "sentence"
  /\ \E f \in assignFont(wimg.font, headingFontString) :
       wimg' = [wimg EXCEPT
                  !.pc = "example",
                  !.font = f,
                  !.blocks = Append(@, Line("sentence", f, wimg.currentY)),
                  !.currentY = @ + Px(blockGap)]
  /\ UNCHANGED notWimg

\* the example: wrapped, boxed and painted like the definition
DrawExample ==
  /\ wimg.pc = "example"
  /\ \E f \in assignFont(wimg.font, exampleFontString), lines \in 1..MaxBlockLines :
       wimg' = [wimg EXCEPT
                  !.pc = "end",
                  !.font = f,
                  !.blocks = Append(@, boxed("example", f, wimg.currentY, lines,
                                             exampleFontSize, examplePadding))]
  /\ UNCHANGED notWimg

\* the image is saved and the call returns
DrawEnd ==
  /\ wimg.pc = "end"
  /\ wimg' = NoWordImage
  /\ UNCHANGED notWimg

NextWordBlocks ==
  \/ DrawStart \/ DrawWord \/ DrawPartOfSpeech \/ DrawMeaningHeading
  \/ DrawDefinition \/ DrawSentenceHeading \/ DrawExample \/ DrawEnd

SpecWordBlocks == Init /\ [][NextWordBlocks]_vars

\* ------------------------------ QuoteImageController.generateQuoteImage
\* the variables the handler leaves alone
notHandler == <<imageVars, wrap, wordVars, quoteVars, controllerVars, wordsVars, providerVars, wimg, quoteRows, fetch>>

\* a request arrives
HandleRequest ==
  /\ handler.pc = "idle"
  /\ \E mode \in ModeParams, day \in DayParams :
       handler' = [NoHandler EXCEPT !.pc = "design", !.mode = mode, !.day = day]
  /\ UNCHANGED notHandler

\* the design lookup: the fixed design of the day, null for an unknown day,
\* a random design, or an exception
HandleDesign ==
  /\ handler.pc = "design"
  /\ \/ /\ selectsFixed(handler.mode, handler.day)
        /\ handler' = [handler EXCEPT !.pc = "quote",
                                      !.design = findByDay(handler.day.text)]
     \/ /\ ~selectsFixed(handler.mode, handler.day)
        /\ \E n \in RandomDesignNumbers :
             handler' = [handler EXCEPT !.pc = "quote", !.design = getRandomDesign(n)]
     \/ handler' = [handler EXCEPT !.pc = "outerCatch", !.design = DesignThrew]
  /\ UNCHANGED notHandler

\* the quote lookup: a quote, null, or an exception
HandleQuote ==
  /\ handler.pc = "quote"
  /\ \/ handler' = [handler EXCEPT !.pc = "render", !.quote = "quote"]
     \/ handler' = [handler EXCEPT !.pc = "noQuote", !.quote = "null"]
     \/ handler' = [handler EXCEPT !.pc = "outerCatch", !.quote = "threw"]
  /\ UNCHANGED notHandler

\* no quote: the placeholder if the file exists, else the default quote
HandleNoQuote ==
  /\ handler.pc = "noQuote"
  /\ \E exists \in BOOLEAN :
       handler' = [handler EXCEPT
                     !.pc = IF exists THEN "done" ELSE "render",
                     !.placeholderSeen = exists,
                     !.answer = IF exists THEN PlaceholderUrl ELSE "none"]
  /\ UNCHANGED notHandler

\* the options are built (design.typography of a null design throws) and the
\* renderer is called: it returns an imageUrl or throws; the inner catch
\* of the branch handles the exception
HandleRender ==
  /\ handler.pc = "render"
  /\ \E exists \in BOOLEAN :
       LET message == IF handler.quote = "quote" THEN "Failed to generate image"
                      ELSE "Failed to generate default image"
           caught == innerCatch(exists, message)
       IN  \/ /\ handler.design = NoDesign
              /\ handler' = [handler EXCEPT !.pc = caught.pc, !.answer = caught.answer,
                                            !.thrown = @ \o caught.thrown]
           \/ /\ handler.design # NoDesign
              /\ handler' = [handler EXCEPT !.pc = caught.pc, !.answer = caught.answer,
                                            !.thrown = @ \o caught.thrown,
                                            !.rendered = TRUE]
           \/ /\ handler.design # NoDesign
              /\ handler' = [handler EXCEPT !.pc = "done", !.answer = RenderedUrl,
                                            !.rendered = TRUE]
  /\ UNCHANGED notHandler

\* the outer catch
HandleOuterCatch ==
  /\ handler.pc = "outerCatch"
  /\ \E exists \in BOOLEAN :
       handler' = [handler EXCEPT !.pc = "done",
                                  !.answer = lastResort(exists).answer,
                                  !.escaped = lastResort(exists).escaped]
  /\ UNCHANGED notHandler

\* the answer is sent
HandleRespond ==
  /\ handler.pc = "done"
  /\ handler' = NoHandler
  /\ UNCHANGED notHandler

NextHandler ==
  \/ HandleRequest \/ HandleDesign \/ HandleQuote \/ HandleNoQuote
  \/ HandleRender \/ HandleOuterCatch \/ HandleRespond

SpecHandler == Init /\ [][NextHandler]_vars

\* ------------------------------------- QuotesService.fetchNewQuotes
\* the variables the fetching and saving of quotes leaves alone
notFetch == <<imageVars, wrap, wordVars, quoteVars, controllerVars, wordsVars, providerVars, wimg, handler>>

\* seedInitialQuotes: the create of the seed quote, whose error is swallowed
SeedQuoteRows ==
  /\ fetch.pc = "idle"
  /\ Cardinality(quoteRows) < Cardinality(QuotePairs)
  /\ \E dbError \in BOOLEAN : quoteRows' = create(quoteRows, SeedPair, dbError).rows
  /\ quoteRows' # quoteRows
  /\ UNCHANGED <<notFetch, fetch>>

\* fetchNewQuotes begins with the first source
FetchNewQuotes ==
  /\ fetch.pc = "idle"
  /\ fetch' = [NoFetch EXCEPT !.pc = "fetch", !.source = 1]
  /\ UNCHANGED <<notFetch, quoteRows>>

\* the next source, or the end of the run
nextSource(f) ==
  IF f.source < Len(quoteSources)
  THEN [f EXCEPT !.pc = "fetch", !.source = @ + 1]
  ELSE [f EXCEPT !.pc = "done"]

\* the quotes of the source are fetched (limit requests at most); they are
\* saved if there are any
FetchFromSource ==
  /\ fetch.pc = "fetch"
  /\ \E limit \in 1..MaxLimit :
       \E answers \in [1..limit -> SourceAnswers] :
         LET quotes == fetchQuotesFromSource(quoteRows, answers)
             f == [fetch EXCEPT
                     !.tried = @ \cup {fetch.source},
                     !.failed = IF \E i \in 1..limit : answers[i] = "error"
                                THEN @ \cup {fetch.source} ELSE @,
                     !.batch = quotes, !.queue = quotes, !.erred = {}]
         IN  fetch' = IF quotes # <<>> THEN [f EXCEPT !.pc = "save"] ELSE nextSource(f)
  /\ UNCHANGED <<notFetch, quoteRows>>

\* saveQuotes: the next quote of the batch is created; an error of the
\* create is caught and the loop goes on
SaveQuote ==
  /\ fetch.pc = "save"
  /\ \E dbError \in BOOLEAN :
       LET made == create(quoteRows, Head(fetch.queue), dbError)
           f == [fetch EXCEPT
                   !.queue = Tail(@),
                   !.saved = IF made.created THEN Append(@, Head(fetch.queue)) ELSE @,
                   !.erred = IF dbError THEN @ \cup {Head(fetch.queue)} ELSE @]
       IN  /\ quoteRows' = made.rows
           /\ fetch' = IF f.queue # <<>> THEN f ELSE nextSource(f)
  /\ UNCHANGED notFetch

\* fetchNewQuotes returns
FetchReturn ==
  /\ fetch.pc = "done"
  /\ fetch' = NoFetch
  /\ UNCHANGED <<notFetch, quoteRows>>

NextFetch == SeedQuoteRows \/ FetchNewQuotes \/ FetchFromSource \/ SaveQuote \/ FetchReturn

SpecFetch == Init /\ [][NextFetch]_vars

\* ================================================================ claims

\* C1: generateQuoteImage and generateWordImage never raise: every call
\* resolves to a reference; when any stage failed that reference is the
\* placeholder of the category, and a successful render returns the
\* reference of the file it wrote, which is not the placeholder.
NeverRaisesPlaceholderOnFailure ==
  /\ raised = FALSE
  /\ pc = "done" =>
       /\ result # NoResult
       /\ failedAt # "none" => result = placeholder(opts.kind)
       /\ failedAt = "none" =>
            /\ result # placeholder(opts.kind)
            /\ wrote
            /\ result = saves[Len(saves)]

\* a word render whose wrapping of the definition threw has resolved
FailedRenderResolved ==
  /\ pc = "done"
  /\ opts.kind = "word"
  /\ failedAt = "definition"
  /\ result = placeholder("word")

\* the painting calls a complete render of the options o has made
AllPainted(o) ==
  IF o.kind = "quote"
  THEN /\ {"background", "title", "card_fill", "body", "author", "decoration"}
            \subseteq {log[i].op : i \in DOMAIN log}
       /\ layout.lines >= 1
       /\ Cardinality({i \in DOMAIN log : log[i].op = "body"}) = layout.lines
  ELSE /\ {"background", "decoration", "word", "heading", "box_fill", "definition"}
            \subseteq {log[i].op : i \in DOMAIN log}
       /\ o.partOfSpeech => \E i \in DOMAIN log : log[i].op = "partOfSpeech"
       /\ o.example => \E i \in DOMAIN log : log[i].op = "example"

\* C2: serialization is the last step of a render: the canvas is encoded
\* and a file is written only after every painting step of the render has
\* completed without an exception; a render in which a painting step threw
\* encodes no buffer and writes no file.
SerializationIsLast ==
  /\ (encoded \/ wrote) => /\ failedAt \in {"none", "save"}
                           /\ AllPainted(opts)
  /\ failedAt \notin {"none", "save"} => /\ ~encoded
                                         /\ ~wrote
                                         /\ result # NoResult =>
                                              result = placeholder(opts.kind)

\* a quote render failed while painting the body, after painting the card
PartialCanvasDropped ==
  /\ pc = "done"
  /\ failedAt = "body"
  /\ \E i \in DOMAIN log : log[i].op = "card_fill"
  /\ ~encoded
  /\ ~wrote

\* the stage a painting call belongs to: 1 background, 2 decorations,
\* 3 card, 4 text; 0 for the rules beside a heading
StageRank(op) ==
  IF op \in BackgroundOps THEN 1
  ELSE IF op \in DecorationOps THEN 2
  ELSE IF op \in CardOps THEN 3
  ELSE IF op \in TextOps THEN 4
  ELSE 0

\* C3: every render paints in the order background, decorations, card,
\* text: no text is painted before a decoration or a card.
FixedPaintOrder ==
  \A i, j \in DOMAIN log :
    (i < j /\ StageRank(log[i].op) > 0 /\ StageRank(log[j].op) > 0)
      => StageRank(log[i].op) <= StageRank(log[j].op)

\* C4: in the quote image the heading lies above the card without
\* overlapping it, the heading top is not above the top margin and the card
\* bottom is not below the bottom margin, for every number of lines.
QuoteLayoutWithinMargins ==
  layout.lines >= 1 =>
    /\ layout.titleY <= layout.cardY
    /\ layout.titleY - titleHeight >= Px(MARGINS_VERTICAL)
    /\ layout.cardY + layout.cardHeight <= Px(HEIGHT - MARGINS_VERTICAL)
    /\ layout.cardX >= Px(MARGINS_HORIZONTAL)
    /\ layout.cardX + layout.cardWidth <= Px(WIDTH - MARGINS_HORIZONTAL)

CardCentredWithFixedGaps ==
  layout.lines >= 1 =>
    /\ 2 * layout.cardY + layout.cardHeight = Px(HEIGHT) + 2 * Px(20)
    /\ layout.cardY - layout.titleY = Px(60)
    /\ layout.authorY - layout.lastLineY = 696 + Px(50)

\* quotes of one line and of many lines are laid out
LongQuoteLaidOut ==
  /\ pc = "q_title"
  /\ layout.lines = MaxLines

\* design.background.color does not parse to a non-empty array of colours
Unparseable(color) ==
  \/ color.kind \in {"malformed", "object"}
  \/ color.kind = "array" /\ color.elems = <<>>

\* C7: with a gradient background whose colour value is malformed text, JSON
\* that is no array, or an empty array, the gradient has exactly the stops
\* '#ffffff' at 0 and '#f0f0f0' at 1, the parse failure leaves
\* applyGradientBackground as no exception, and the render returns a
\* reference other than the placeholder unless the canvas, the wrapper or
\* the file system fails.
GradientFallsBack ==
  (opts.kind = "quote" /\ opts.hasDesign /\ opts.bgType = "gradient"
     /\ Unparseable(opts.color)) =>
    /\ log # <<>> =>
         bgStops = <<Stop(0, Rgb(255, 255, 255)), Stop(100, Rgb(240, 240, 240))>>
    /\ failedAt # "none" => envFault
    /\ (pc = "done" /\ ~envFault) => result # placeholder("quote")

\* a render with the colour value 'not-json' has returned a written file
MalformedGradientRendered ==
  /\ pc = "done"
  /\ opts.bgType = "gradient"
  /\ opts.color.kind = "malformed"
  /\ failedAt = "none"
  /\ wrote
  /\ result # placeholder("quote")

\* C8: any two saves write to distinct generated filenames, so that no save
\* overwrites the file of another save.
SavesUseDistinctFilenames ==
  \A i, j \in DOMAIN saves : i # j => saves[i] # saves[j]

\* C9: whenever a line of the body, the attribution, a definition or an
\* example is painted, and when the card border is stroked, ctx.shadowColor
\* is 'transparent'; only the heading or word text and the fill of the card
\* or of a box are painted with a shadow.
ShadowResetBeforeText ==
  \A i \in DOMAIN log :
    /\ log[i].op \in {"body", "author", "definition", "example", "card_stroke"}
         => log[i].shadow = Transparent
    /\ log[i].shadow # Transparent
         => log[i].op \in {"title", "word", "card_fill", "box_fill"}

\* the body was painted after a card filled with a shadow and without border
BodyPaintedAfterShadowedCard ==
  /\ pc = "q_author"
  /\ \E i \in DOMAIN log : log[i].op = "card_fill" /\ log[i].shadow # Transparent
  /\ ~\E i \in DOMAIN log : log[i].op = "card_stroke"
  /\ \E i \in DOMAIN log : log[i].op = "body"

\* designId contains the name of a weekday
HasWeekdayToken(designId) == \E i \in 1..Len(days) : includes(designId, days[i])

\* C10: resolutions of a designId that contains a weekday name select the
\* same gradient stops, decoration routine, card constants and font index
\* whatever the random source returns, and draw nothing from it; only a
\* designId without a weekday name takes a value from the random source.
FixedThemesDeterministic ==
  /\ \A a, b \in resolutions :
       (/\ a.theme.kind = b.theme.kind
        /\ a.theme.designId = b.theme.designId
        /\ HasWeekdayToken(a.theme.designId)) => a.theme = b.theme
  /\ \A a \in resolutions :
       a.theme.drew # {} => ~HasWeekdayToken(a.theme.designId)

\* 'fixed-sunday-design' was resolved twice for the word image, the random
\* source returning different values
SundayResolvedTwice ==
  \E a, b \in resolutions :
    /\ a.theme.kind = "word" /\ b.theme.kind = "word"
    /\ a.theme.designId = FixedDesignId(Sunday)
    /\ b.theme.designId = FixedDesignId(Sunday)
    /\ a.fontDraw # b.fontDraw
    /\ a.hueDraw # b.hueDraw

\* C11 (as stated): when a colour or font-family field of the title, quote or
\* author typography is missing, the text is drawn with '#000000' and 'Arial'
\* and the render does not end in the placeholder because of it.
MissingFieldDrawnBlackArial ==
  (pc = "done" /\ ~envFault) =>
    /\ result # placeholder("quote")
    /\ \A g \in {"title", "quote", "author"} :
         LET ink == IF g = "quote" THEN inks.body ELSE inks[g] IN
           /\ typography[g].color \in {Undefined, ""} => ink.color = "#000000"
           /\ typography[g].fontFamily \in {Undefined, ""} => ink.fontFamily = "Arial"

\* C11 (amended): a missing font family is replaced by 'Arial', a missing
\* title or quote colour by '#000000', a missing author colour by '#555555';
\* a field that is set is used as it is, and a render that meets no other
\* failure ends with a saved image, not the placeholder.
MissingFieldDrawnWithDefault ==
  (pc = "done" /\ ~envFault) =>
    /\ result # placeholder("quote")
    /\ \A g \in {"title", "quote", "author"} :
         LET ink == IF g = "quote" THEN inks.body ELSE inks[g] IN
           /\ ink.color = IF typography[g].color \in {Undefined, ""}
                          THEN (IF g = "author" THEN "#555555" ELSE "#000000")
                          ELSE typography[g].color
           /\ ink.fontFamily = IF typography[g].fontFamily \in {Undefined, ""}
                               THEN "Arial" ELSE typography[g].fontFamily

\* C11 witness: a quote image whose design has no author colour and no title
\* font family was rendered and saved.
MissingFieldRendered ==
  /\ pc = "done"
  /\ result # placeholder("quote")
  /\ wrote
  /\ typography.author.color = Undefined
  /\ typography.title.fontFamily = Undefined
  /\ inks.author.color = "#555555"
  /\ inks.title.fontFamily = "Arial"

\* C12: fonts are registered only by onModuleInit, before any render: a
\* render runs only once the module is initialised, no step of a render (and
\* no step at all after initialisation) calls registerFont or changes the
\* font table, and a registerFont that throws at startup still leaves the
\* module initialised.
FontsRegisteredOnlyAtInit ==
  [][/\ fontRegistry'.calls > 0 => fontRegistry'.initialised
     /\ pc' # "idle" => (fontRegistry.initialised /\ fontRegistry' = fontRegistry)
     /\ fontRegistry.initialised => fontRegistry' = fontRegistry]_vars

\* C12 witness: a word image was rendered and saved by a process in which
\* registerFont threw at startup.
RenderedAfterFailedRegistration ==
  /\ pc = "done"
  /\ opts.kind = "word"
  /\ wrote
  /\ callNo = MaxCalls
  /\ fontRegistry.initialised
  /\ Len(fontRegistry.families) < Len(customFonts)

\* the text of the lines, a hyphenated fragment joined to the line after it
\* without its hyphen, the other lines joined by a space
RECURSIVE Rejoin(_)
Rejoin(ls) ==
  IF ls = <<>> THEN <<>>
  ELSE IF Len(ls) = 1 THEN Head(ls)
  ELSE IF Head(ls) # <<>> /\ Head(ls)[Len(Head(ls))] = "-"
       THEN SubSeq(Head(ls), 1, Len(Head(ls)) - 1) \o Rejoin(Tail(ls))
       ELSE Head(ls) \o <<" ">> \o Rejoin(Tail(ls))

Hyphenated(l) == l # <<>> /\ l[Len(l)] = "-"

LinesReproduceTokens ==
  wrap.pc \in {"height", "done"} => split(Rejoin(wrap.lines)) = split(wrap.text)

\* C14 witness: a text of three tokens was wrapped with a break at whitespace
\* and a break by hyphenation.
BrokenAtSpaceAndByHyphen ==
  /\ wrap.pc = "done"
  /\ Len(split(wrap.text)) = 3
  /\ \E i \in DOMAIN wrap.lines : Hyphenated(wrap.lines[i])
  /\ \E i \in DOMAIN wrap.lines : i < Len(wrap.lines) /\ ~Hyphenated(wrap.lines[i])

BreakerClosesAgain ==
  [](apiFailCount > breakerThreshold => <>(wcall.pc = "api"))

\* C17: the random-word APIs are tried in sequence, then the word table,
\* and the predefined fallback words come last: a call in which every
\* random-word API failed while the table holds a word does not return a
\* predefined fallback word.
FallbackWordOnlyAfterStore ==
  (/\ wcall.pc = "done"
   /\ Len(wcall.responses) = Len(apis)
   /\ \A i \in DOMAIN wcall.responses : wcall.responses[i].kind # "array"
   /\ wordStore # {}) => wcall.returned.source # "fallback"

\* C20: getWordOfTheDay never throws and returns a WordData whose word and
\* definition are strings that are not empty, whatever the APIs answered.
WordDataAlwaysWellFormed ==
  wcall.pc = "done" =>
    /\ ~wcall.threw
    /\ wcall.returned.word.type = "string"
    /\ wcall.returned.word.text # <<>>
    /\ wcall.returned.definition.type = "string"
    /\ wcall.returned.definition.text # <<>>

\* a quote last used within the last 30 days of today
UsedRecently(row) == row.lastUsedAt # NeverUsed /\ row.lastUsedAt >= today - cooldownDays

\* C18: in a sequence of getRandomQuote calls, a call returns a quote used
\* within the last 30 days only if every quote of the store was used within
\* the last 30 days, and the quote a call returns has been marked used in the
\* store (lastUsedAt today, usageCount one more than read) when it returns.
RecentQuoteOnlyWhenNoneFresh ==
  \A c \in SequentialCallers :
    (qcall[c].pc = "done" /\ qcall[c].returned # NoQuote) =>
      /\ UsedRecently(qcall[c].returned) =>
           \A r \in quoteStore : r.id # qcall[c].returned.id => UsedRecently(r)
      /\ Quote(qcall[c].returned.id, today, qcall[c].returned.usageCount + 1) \in quoteStore

\* C18 witness: with every quote of a store of three used in the last 30 days,
\* a call returned one of them, used 30 days before, and marked it used again.
LeastRecentQuoteReused ==
  /\ qcall[1].pc = "done"
  /\ qcall[1].returned # NoQuote
  /\ Cardinality(quoteStore) = 3
  /\ qcall[1].returned.lastUsedAt = today - cooldownDays
  /\ qcall[1].returned.usageCount = 1
  /\ \A r \in quoteStore : UsedRecently(r)

\* C19: a request to an image endpoint with mode=fixed, with no day or with
\* the name of a weekday, is handled with the fixed design of the named day
\* and never with a randomly selected design.
FixedModeUsesDesignOfNamedDay ==
  (/\ req.pc = "designed"
   /\ req.mode = Param(TRUE, ModeFixed)
   /\ getFixedDesignByDay(req.day.text) # NoDesign \/ ~selectsFixed(req.mode, req.day)) =>
    /\ req.day.present
    /\ req.design = Design(FixedDesignId(toLowerCase(req.day.text)), "fixed")
    /\ req.design.mode # "random"

\* C21: when a getWordOfTheDay call ends, apiFailCount is the counter at entry
\* if the call skipped the APIs (counter above 2), one more than at entry if
\* every random-word API failed, and 0 if the call obtained a word, whatever
\* the dictionary lookups did.
FailCountFollowsRandomWordApis ==
  wcall.pc = "done" =>
    apiFailCount =
      IF wcall.countAtEntry > breakerThreshold THEN wcall.countAtEntry
      ELSE IF wcall.word = Null THEN wcall.countAtEntry + 1
      ELSE 0

\* C22: every getRandomQuote call that has begun returns (a quote or null),
\* also when the store is empty and seeding inserts nothing.
GetRandomQuoteReturns == (qcall[1].pc = "count") ~> (qcall[1].pc = "done")

\* C24: two concurrent getRandomQuote calls that both selected a quote that
\* was unused or last used more than 30 days ago do not return the same
\* quote while the store holds another such quote.
ConcurrentCallsReturnDistinctQuotes ==
  (/\ qcall[1].pc = "done" /\ qcall[1].returned # NoQuote
   /\ qcall[2].pc = "done" /\ qcall[2].returned # NoQuote
   /\ ~UsedRecently(qcall[1].returned) /\ ~UsedRecently(qcall[2].returned)
   /\ \E r \in quoteStore : ~UsedRecently(r)) =>
    qcall[1].returned.id # qcall[2].returned.id

\* C23: under any interleaving of getRandomWord calls, the stored usageCount
\* of each word equals the number of calls that returned that word.
UsageCountCountsReturns ==
  \A r \in wordRows : r.usageCount = returnCount[r.id]

\* the theme a designId names: the position in monday..sunday of the first
\* weekday that is a substring of it, 0 (default/random) when none is
namedTheme(designId) ==
  IF \E i \in 1..Len(days) : includes(designId, days[i])
  THEN CHOOSE i \in 1..Len(days) :
         /\ includes(designId, days[i])
         /\ \A j \in 1..Len(days) : includes(designId, days[j]) => i <= j
  ELSE 0

\* a designId that names theme k and no other
idOfTheme(k) == IF k = 0 THEN <<>> ELSE days[k]

\* C25: for every designId resolved, the font index, the background, the
\* decorations of the word image, and the decoration and the card of the
\* quote image are those of one theme and of no other: the first of
\* monday..sunday that is a substring of designId, and the default/random
\* theme exactly when none is.
ThemeDispatchConsistent ==
  \A res \in resolutions :
    LET t == res.theme
        k == namedTheme(t.designId)
    IN  IF t.kind = "word"
        THEN /\ ("fontIndex" \in t.drew) <=> (k = 0)
             /\ k > 0 => t.fontIndex = k - 1
             /\ ("gradient" \in t.drew) <=> (k = 0)
             /\ \A j \in 0..Len(days) :
                  (t.stops = createDayBackground(idOfTheme(j), res.hueDraw).stops) <=> (j = k)
             /\ \A j \in 0..Len(days) :
                  (t.decoration = addDecorativeElements(idOfTheme(j))) <=> (j = k)
        ELSE /\ \A j \in 0..Len(days) :
                  (t.decoration = quoteDecoration(idOfTheme(j))) <=> (j = k)
             /\ \A j \in 0..Len(days) :
                  (t.card = cardStyle(idOfTheme(j))) <=> (j = k)

\* C25 witness: a designId that contains sunday before monday was resolved
\* for the word image and for the quote image, and a designId without a
\* weekday was resolved too.
TwoDayDesignIdResolved ==
  /\ \E a \in resolutions :
       a.theme.kind = "word" /\ a.theme.designId = Sunday \o <<"-">> \o Monday
  /\ \E b \in resolutions :
       b.theme.kind = "quote" /\ b.theme.designId = Sunday \o <<"-">> \o Monday

\* a and b are the same string up to the case of their letters
sameUpToCase(a, b) ==
  /\ Len(a) = Len(b)
  /\ \A i \in 1..Len(a) :
       \/ a[i] = b[i]
       \/ \E k \in 1..Len(lowerLetters) :
            {a[i], b[i]} = {lowerLetters[k], upperLetters[k]}

\* C26: every getFixedDesignByDay call with a weekday name in any letter case
\* returned the config of mode 'fixed' with designId 'fixed-<day>-design',
\* on which the renderer's weekday dispatch selects that day again; every
\* call with another string returned null; and after any sequence of
\* getFixedDesignByDay, getRandomDesign and getAllDesigns calls the stored
\* configs are those of the seven weekdays.
FixedDesignLookupByWeekday ==
  /\ designConfigs = initializeConfigs
  /\ Cardinality(getAllDesigns) = Len(days)
  /\ \A n \in 1..Len(providerLog) :
       providerLog[n].op = "getFixedDesignByDay" =>
         /\ \A i \in 1..Len(days) :
              sameUpToCase(providerLog[n].day, days[i]) =>
                /\ providerLog[n].returned = {Design(FixedDesignId(days[i]), "fixed")}
                /\ namedTheme(FixedDesignId(days[i])) = i
         /\ (\A i \in 1..Len(days) : ~sameUpToCase(providerLog[n].day, days[i])) =>
              providerLog[n].returned = {NoDesign}

\* C26 witness: a lookup of a weekday written in mixed case returned its
\* config, and then a lookup of a string that names no day returned null.
MixedCaseDayLookedUp ==
  /\ Len(providerLog) = 2
  /\ providerLog[1] = ProviderCall("getFixedDesignByDay",
                                   <<"s", "U", "n", "D", "A", "y">>,
                                   {Design(FixedDesignId(Sunday), "fixed")})
  /\ providerLog[2] = ProviderCall("getFixedDesignByDay", Monday \o <<"s">>, {NoDesign})

\* C27: the definition box and the example box lie inside the canvas height,
\* every wrapped line's baseline lies inside its own box, and the 'SENTENCE'
\* heading is painted below the bottom of the definition box.
WordBoxesInsideCanvas ==
  \A i \in 1..Len(wimg.blocks) :
    LET b == wimg.blocks[i]
    IN  /\ b.name \in {"definition", "example"} =>
             /\ 0 <= b.boxTop /\ b.boxBottom <= Px(HEIGHT)
             /\ b.boxTop <= b.firstY /\ b.lastY <= b.boxBottom
        /\ b.name = "sentence" =>
             \A j \in 1..(i - 1) :
               wimg.blocks[j].name = "definition" => b.firstY > wimg.blocks[j].boxBottom

\* the font string of each block
fontStringOf(name) ==
  CASE name = "word" -> wordFontString
    [] name = "partOfSpeech" -> partOfSpeechFontString
    [] name \in {"meaning", "sentence"} -> headingFontString
    [] name = "definition" -> definitionFontString
    [] name = "example" -> exampleFontString

\* C28: every block of the word image is measured and painted with the font
\* its own well-formed font string names (weight or style, size, family,
\* fallback family); the definition with its bold 40px font.
BlocksPaintedWithOwnFont ==
  \A i \in 1..Len(wimg.blocks) :
    /\ wellFormed(fontStringOf(wimg.blocks[i].name))
    /\ wimg.blocks[i].font = named(fontStringOf(wimg.blocks[i].name))

\* C29: the quote-image handler always answers with an imageUrl and no
\* exception leaves it; an HttpException thrown inside it is replaced by the
\* thoughts placeholder URL; and without a quote, when the placeholder file
\* exists, the placeholder is returned without rendering.
HandlerAlwaysAnswers ==
  /\ ~handler.escaped
  /\ handler.pc = "done" =>
       /\ handler.answer \in {PlaceholderUrl, RenderedUrl}
       /\ handler.thrown # <<>> => handler.answer = PlaceholderUrl
       /\ (handler.quote = "null" /\ handler.placeholderSeen) =>
            (handler.answer = PlaceholderUrl /\ ~handler.rendered)

\* C29 witness: the renderer failed for a quote, no placeholder file existed,
\* 'Failed to generate image' was thrown and the placeholder URL was answered.
HttpExceptionReplaced ==
  /\ handler.pc = "done"
  /\ handler.rendered
  /\ handler.thrown = <<"Failed to generate image">>
  /\ handler.answer = PlaceholderUrl

\* C30: the store holds at most one quote per (text, author) pair; when the
\* batch of a source has been saved, every quote of the batch is stored
\* unless its create met a database error (a duplicate is skipped and the
\* rest is saved); and a run ends only after every source was tried, also
\* when a request of an earlier source failed.
OneQuotePerTextAndAuthor ==
  /\ \A r1 \in quoteRows, r2 \in quoteRows : r1.pair = r2.pair => r1 = r2
  /\ (fetch.pc \in {"fetch", "done"} /\ fetch.queue = <<>>) =>
       \A i \in 1..Len(fetch.batch) :
         fetch.batch[i] \in pairsOf(quoteRows) \/ fetch.batch[i] \in fetch.erred
  /\ fetch.pc = "done" => fetch.tried = 1..Len(quoteSources)

\* C30 witness: a request of the first source failed, the second source gave
\* the same quote twice and then another one, and both quotes were saved.
DuplicateInBatchSkipped ==
  /\ fetch.pc = "done"
  /\ fetch.failed = {1}
  /\ fetch.batch = <<"a", "a", "b">>
  /\ fetch.saved = <<"a", "b">>
  /\ fetch.erred = {}

====
